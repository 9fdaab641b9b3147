---------------------------- MODULE MCTransport ----------------------------
(* Transport for TLC: the operations by the strictness of their parsers. *)
EXTENDS Transport

AllOps == {"get", "put", "create", "invoke", "delete"}
OnlyDelete == {"delete"}
=============================================================================
