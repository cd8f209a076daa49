---------------------------- MODULE MCConnection ----------------------------
(***************************************************************************)
(* Connection for TLC: commands with names of one byte, one client that    *)
(* sends anything, one that sends one request at a time, in small letters. *)
(***************************************************************************)
EXTENDS Connection

CONSTANTS c1, c2

Ping == <<80>>
Get == <<71>>
Key == <<97>>
Table ==
  (Ping :> [args_count |-> 0, variable_arg_count |-> FALSE, skip_arg_test |-> FALSE])
  @@ (Get :> [args_count |-> 1, variable_arg_count |-> FALSE, skip_arg_test |-> FALSE])

Resp(args, lost) == [form |-> "resp", args |-> args, lost |-> lost]
InLine(args) == [form |-> "line", args |-> args, lost |-> 0]

(* A PING in RESP is 11 bytes long, "*1", "$1" and "P" each with CRLF; the *)
(* bytes lost are the count and the last LF.                               *)
Anything ==
  {Resp(<<Ping>>, i) : i \in {0, 2, 11}}
  \cup {Resp(<<Get, Key>>, 0), InLine(<<Get, Key>>), InLine(<<>>)}
ClientSends == (c1 :> Anything) @@ (c2 :> {InLine(<<<<112>>>>)})
ClientMaxSent == (c1 :> 2) @@ (c2 :> 1)
=============================================================================
