--------------------------- MODULE MCFrameStream ----------------------------
(* Payloads that contain the magic numbers, a checksum that equals one, and    *)
(* noise that ends in the second magic number.                                 *)
EXTENDS FrameStream

MCPayload == {<< >>, <<2>>, <<2, 3>>}
MCNoise   == {<<3>>, <<0, 3>>}
=============================================================================
