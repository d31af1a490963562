-------------------------- MODULE MCFrameAssembler --------------------------
(***************************************************************************)
(* The instance of FrameAssembler for TLC: bytes of two values and         *)
(* payloads of up to two of them, so that a payload may look like an end   *)
(* flag or like the start of another header.                               *)
(***************************************************************************)
EXTENDS FrameAssembler

MCEndFlag == <<1, Base - 1>>
MCPayloads == UNION { [1..n -> Byte] : n \in 0..2 }
=============================================================================
