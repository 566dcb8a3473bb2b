------------------------------ MODULE MCUploads ------------------------------
(***************************************************************************)
(* Sessions of which requests append one of two chunks at a time.          *)
(***************************************************************************)
EXTENDS Uploads
=============================================================================
