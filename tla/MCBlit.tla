-------------------------------- MODULE MCBlit --------------------------------
(* XEBlit on a screen of four by three, with words of four bits: corners    *)
(* inside, at and past the edge, and sums that wrap.                        *)
EXTENDS XEBlit

RectSet == [x: {0, 1, 3, 4, 15}, y: {0, 2, 3, 14},
            w: {0, 1, 2, 9, 15}, h: {0, 1, 3, 13}]
=============================================================================
