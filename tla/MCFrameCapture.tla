---------------------------- MODULE MCFrameCapture -----------------------------
EXTENDS FrameCapture

(* With int of 8 bits: products that fit, that are nought, that wrap to a     *)
(* negative int (10 x 5: 150) and to a positive one (10 x 10: 300).          *)
SmallWindows == {<<0, 3>>, <<2, 3>>, <<3, 2>>, <<10, 5>>, <<10, 10>>}
SmallDesktops == {<<1, 1>>, <<2, 3>>, <<3, 2>>, <<2, 2>>, <<4, 3>>}
================================================================================
