-------------------------- MODULE MCToolAgentLoop --------------------------
(* One trajectory under both protocols, with and without a mirrored first  *)
(* user turn: two assistant turns of at most two tokens and two calls and  *)
(* observations of one or two tokens. With a prompt of one token the       *)
(* response limit (four) binds before the context limit (six), with a      *)
(* prompt of three the context does, and four exceed the prompt limit.     *)
EXTENDS ToolAgentLoop
=============================================================================
