--------------------------- MODULE MCMirrorBatcher ---------------------------
(* MirrorBatcher on two frames.  With MaxBytes = 11, a frame of one entry   *)
(* crosses the threshold of the bytes and one without entries does not, so  *)
(* each order of an eager drain, a result's flush and a final one occurs.   *)
EXTENDS MirrorBatcher
=============================================================================
