------------------------------ MODULE Service ------------------------------
(***************************************************************************)
(* What a client may count on: its requests are answered one by one in the *)
(* order it sent them, each for what it says, as long as every read the    *)
(* server makes brings one of them.  A read that brings anything else      *)
(* breaks the promise for the requests it brings a part of, and for no     *)
(* other request and no other client.                                      *)
(***************************************************************************)
EXTENDS Integers, Sequences

CONSTANTS
  Clients,
  Requests,  (* what clients ask for                                        *)
  Answer(_), (* the reply to a request, Silent when there is none           *)
  Silent

VARIABLES
  pending,  (* the requests of each client not answered yet                 *)
  reply,    (* the last reply since a client sent something, else Silent    *)
  pace,     (* what the last read of a client was: "whole", one request;    *)
            (* otherwise it ended amid one, "cut", or behind one, "back"    *)
  down

vars == <<pending, reply, pace, down>>

Init ==
  /\ pending = [c \in Clients |-> <<>>]
  /\ reply = [c \in Clients |-> Silent]
  /\ pace = [c \in Clients |-> "whole"]
  /\ down = FALSE

Send(c, r) ==
  /\ reply' = [reply EXCEPT ![c] = Silent]
  /\ pending' = [pending EXCEPT ![c] = Append(@, r)]
  /\ UNCHANGED pace

Serve(c) ==
  /\ pace[c] # "cut" /\ pending[c] # <<>>
  /\ pending' = [pending EXCEPT ![c] = Tail(@)]
  /\ reply' = IF Answer(Head(pending[c])) = Silent THEN reply
              ELSE [reply EXCEPT ![c] = Answer(Head(pending[c]))]
  /\ pace' = [pace EXCEPT ![c] = "whole"]

Misread(c) ==
  /\ \E n \in 0..Len(pending[c]) :
       pending' = [pending EXCEPT ![c] = SubSeq(@, n + 1, Len(@))]
  /\ reply' = [reply EXCEPT ![c] = reply'[c]]
  /\ \E p \in {"cut", "back"} : pace' = [pace EXCEPT ![c] = p]

(* A client hangs up, and comes back with nothing sent.                    *)
Leave(c) ==
  /\ pending' = [pending EXCEPT ![c] = <<>>]
  /\ reply' = [reply EXCEPT ![c] = Silent]
  /\ pace' = [pace EXCEPT ![c] = "whole"]

Next ==
  /\ ~down
  /\ \/ /\ \E c \in Clients :
             (\E r \in Requests : Send(c, r)) \/ Serve(c) \/ Misread(c) \/ Leave(c)
        /\ UNCHANGED down
     \/ down' /\ UNCHANGED <<pending, reply, pace>>

Spec == Init /\ [][Next]_vars
=============================================================================
