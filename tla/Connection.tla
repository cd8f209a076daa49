----------------------------- MODULE Connection -----------------------------
(***************************************************************************)
(* Clients, their connections and the server's reads                       *)
(* (server/redisserver.c): one read is one request to the server, whatever *)
(* its bytes are.  A client is free not to wait for replies, and the       *)
(* network to deliver what it sends in parts of any size.  What a command  *)
(* replies is the business of other modules: here the reply of a command   *)
(* that runs is the arguments it runs with.                                *)
(*                                                                         *)
(* readAnsweredUnlessRefused and errorCallbackFreesNothing are bugs this   *)
(* code could have had (see PROJECT.json, "mutants"); no action uses them. *)
(***************************************************************************)
EXTENDS Protocol

CONSTANTS
  Clients,
  Sends,       (* the messages each client may send                         *)
  MaxSent,     (* how many messages of each client are under way at most    *)
  CommandTable, (* the commands by name: args_count, variable_arg_count and *)
               (* skip_arg_test, TRUE also for SAVE and LOADDB, which       *)
               (* executeCommand knows by name                              *)
  InputBuffer, Slack (* INPUT_BUFFER_SIZE, and the bytes behind it          *)

(***************************************************************************)
(* A message is a request in one of the two forms, or one that has lost    *)
(* the byte at "lost" when that is not 0.                                  *)
(***************************************************************************)
CRLF == <<CR, LF>>
Joined(parts) ==
  LET all[i \in 0..Len(parts)] == IF i = 0 THEN <<>> ELSE all[i - 1] \o parts[i]
  IN all[Len(parts)]

query_string(args) ==
  <<Star, Zero + Len(args)>> \o CRLF
  \o Joined([i \in DOMAIN args |-> <<Dollar, Zero + Len(args[i])>> \o CRLF \o args[i] \o CRLF])

Line(args) ==
  Joined([i \in DOMAIN args |-> IF i = 1 THEN args[i] ELSE <<Space>> \o args[i]]) \o CRLF

Messages == UNION {Sends[c] : c \in Clients}

Bytes ==
  [m \in Messages |->
     LET all == IF m.form = "resp" THEN query_string(m.args) ELSE Line(m.args)
     IN IF m.lost = 0 THEN all ELSE RemoveAt(all, m.lost)]

(***************************************************************************)
(* In RESP arguments are shorter than ten bytes, and there are fewer than  *)
(* ten.  What is lost is not the Star, without which a message is a line;  *)
(* arguments that are empty or begin with a CR are in undamaged messages   *)
(* only, as without the digit of its length one is taken for an empty one. *)
(* A line is words with nothing blank in them.                             *)
(***************************************************************************)
Byte == 0..255

IsMessage(m) ==
  /\ m.args \in Seq(Seq(Byte)) /\ m.lost \in Nat
  /\ \/ /\ m.form = "resp" /\ Len(m.args) < 10
        /\ \A i \in DOMAIN m.args : Len(m.args[i]) < 10
        /\ m.lost # 0 =>
             /\ m.lost \in 2..Len(query_string(m.args)) /\ m.args # <<>>
             /\ \A i \in DOMAIN m.args : m.args[i] # <<>> /\ m.args[i][1] # CR
     \/ /\ m.form = "line" /\ m.lost = 0
        /\ \A i \in DOMAIN m.args : m.args[i] # <<>> /\ ToSet(m.args[i]) \cap Blank = {}
        /\ m.args # <<>> => m.args[1][1] # Star

ASSUME ConnectionAssumption ==
  /\ \A m \in Messages : IsMessage(m)
  /\ MaxSent \in [Clients -> Nat] /\ InputBuffer \in Nat /\ Slack \in Nat
  /\ NULL \notin [from : Nat, to : Nat]

VARIABLES
  link,   (* "open", "left" when the client has closed its end, "closed"    *)
  sent,   (* the messages of each client that are not read to their ends    *)
  off,    (* how many bytes of the first of them have been read             *)
  reply,  (* the last reply since the client sent something, else Silent    *)
  pace,   (* history: whether the last read was one message, see Service    *)
  down    (* the input buffer has been overrun                              *)

vars == <<link, sent, off, reply, pace, down>>

-----------------------------------------------------------------------------
(* Replies                                                                 *)

Silent == [type |-> "none"]
Error(code) == [type |-> "error", code |-> code]
ProtocolError == Error("PROTOCOL_ERROR")

upCase(s) == [i \in DOMAIN s |-> IF s[i] \in 97..122 THEN s[i] - 32 ELSE s[i]]

validArgs(cmd, passed) ==
  \/ cmd.args_count = passed
  \/ passed # 0 /\ cmd.variable_arg_count /\ passed % cmd.args_count = 0

executeCommand(cmd, args) ==
  IF cmd.skip_arg_test \/ validArgs(cmd, Len(args) - 1)
  THEN [type |-> "run", args |-> args] ELSE Error("WRONG_NUMBER_OF_ARGUMENTS")

(* The first argument is put in capitals where it is.                      *)
commandDispatcher(args) ==
  LET name == upCase(args[1])
  IN IF name \in DOMAIN CommandTable
     THEN executeCommand(CommandTable[name], [args EXCEPT ![1] = name])
     ELSE Error("COMMAND_NOT_FOUND")

(* What the bytes of one read are answered with.                           *)
Answer(tokens) ==
  IF tokens = NULL THEN ProtocolError
  ELSE IF tokens = <<>> THEN Silent ELSE commandDispatcher(tokens)

(* What a message asks for: nothing when it is damaged or too long.        *)
Request(m) == IF m.lost = 0 /\ Len(Bytes[m]) <= InputBuffer THEN m.args ELSE NULL

-----------------------------------------------------------------------------
Ends(q) ==
  LET end[i \in 0..Len(q)] == IF i = 0 THEN 0 ELSE end[i - 1] + Len(Bytes[q[i]])
  IN end

Unread(c) ==
  LET all == Joined([i \in DOMAIN sent[c] |-> Bytes[sent[c][i]]])
  IN SubSeq(all, off[c] + 1, Len(all))

Whole(c, n) == off[c] = 0 /\ n = Len(Bytes[sent[c][1]])

Init ==
  /\ link = [c \in Clients |-> "open"]
  /\ sent = [c \in Clients |-> <<>>]
  /\ off = [c \in Clients |-> 0]
  /\ reply = [c \in Clients |-> Silent]
  /\ pace = [c \in Clients |-> "whole"]
  /\ down = FALSE

send(c) ==
  /\ link[c] = "open" /\ Len(sent[c]) < MaxSent[c]
  /\ \E m \in Sends[c] : sent' = [sent EXCEPT ![c] = Append(@, m)]
  /\ reply' = [reply EXCEPT ![c] = Silent]
  /\ UNCHANGED <<link, off, pace, down>>

(* The first n unread bytes are gone from the socket.                      *)
Consume(c, n) ==
  LET ends == Ends(sent[c])
      whole == CHOOSE k \in DOMAIN ends :
                 /\ ends[k] <= off[c] + n
                 /\ k = Len(sent[c]) \/ ends[k + 1] > off[c] + n
  IN /\ sent' = [sent EXCEPT ![c] = SubSeq(@, whole + 1, Len(@))]
     /\ off' = [off EXCEPT ![c] = @ + n - ends[whole]]
     /\ pace' = [pace EXCEPT ![c] =
                   IF Whole(c, n) THEN "whole"
                   ELSE IF off'[c] # 0 THEN "cut" ELSE "back"]

(* Bytes beyond the buffer's size are refused as illegal ones are.         *)
Tokens(c, n) ==
  IF n <= InputBuffer THEN bufferTokenizer(SubSeq(Unread(c), 1, n)) ELSE NULL

readAnsweredUnlessRefused(c, n) ==
  LET answer == IF Tokens(c, n) = NULL THEN Silent ELSE Answer(Tokens(c, n))
  IN reply' = IF answer = Silent THEN reply ELSE [reply EXCEPT ![c] = answer]

readAnswered(c, n) ==
  LET answer == Answer(Tokens(c, n))
  IN reply' = IF answer = Silent THEN reply ELSE [reply EXCEPT ![c] = answer]

(* What libevent has buffered and what recv finds: at least one byte, and  *)
(* as many as have come.                                                   *)
readCallback(c) ==
  /\ link[c] # "closed" /\ sent[c] # <<>>
  /\ \E n \in 1..Len(Unread(c)) :
       /\ n <= InputBuffer + Slack
       /\ Consume(c, n) /\ readAnswered(c, n)
  /\ UNCHANGED <<link, down>>

(* They are copied before they are counted.                                *)
readOverrun(c) ==
  /\ link[c] # "closed" /\ sent[c] # <<>> /\ Len(Unread(c)) > InputBuffer + Slack
  /\ down' = TRUE
  /\ UNCHANGED <<link, sent, off, reply, pace>>

leave(c) ==
  /\ link[c] = "open"
  /\ link' = [link EXCEPT ![c] = "left"]
  /\ reply' = [reply EXCEPT ![c] = Silent]
  /\ UNCHANGED <<sent, off, pace, down>>

errorCallbackFreesNothing(c) ==
  /\ link[c] = "left"
  /\ link' = [link EXCEPT ![c] = "closed"]
  /\ reply' = [reply EXCEPT ![c] = Silent]
  /\ UNCHANGED <<sent, off, pace, down>>

(* At the end of what was sent, or amid it when the connection is reset.   *)
errorCallback(c) ==
  /\ link[c] = "left"
  /\ link' = [link EXCEPT ![c] = "closed"]
  /\ sent' = [sent EXCEPT ![c] = <<>>] /\ off' = [off EXCEPT ![c] = 0]
  /\ reply' = [reply EXCEPT ![c] = Silent] /\ pace' = [pace EXCEPT ![c] = "whole"]
  /\ UNCHANGED down

doAccept(c) ==
  /\ link[c] = "closed"
  /\ link' = [link EXCEPT ![c] = "open"]
  /\ UNCHANGED <<sent, off, reply, pace, down>>

Next ==
  /\ ~down
  /\ \E c \in Clients :
       \/ send(c) \/ readCallback(c) \/ readOverrun(c)
       \/ leave(c) \/ errorCallback(c) \/ doAccept(c)

Spec == Init /\ [][Next]_vars

(* The event loop comes back to every connection that has something to     *)
(* read.  Received is readCallback but for the reply; no other step is one. *)
Received(c) ==
  /\ ~down /\ link[c] # "closed" /\ sent[c] # <<>>
  /\ \E n \in 1..Len(Unread(c)) : n <= InputBuffer + Slack /\ Consume(c, n)
  /\ UNCHANGED <<link, down>>

FairSpec == Spec /\ \A c \in Clients : WF_<<sent, off>>(Received(c))

-----------------------------------------------------------------------------
(* Everything has its type: a connection that is closed has nothing under  *)
(* way, and what is partly read is a message and not past its end.         *)
TypeOK ==
  /\ link \in [Clients -> {"open", "left", "closed"}]
  /\ pace \in [Clients -> {"whole", "cut", "back"}]
  /\ down \in BOOLEAN
  /\ \A c \in Clients :
       /\ sent[c] \in Seq(Messages) /\ Len(sent[c]) <= MaxSent[c]
       /\ IF sent[c] = <<>> THEN off[c] = 0 ELSE off[c] \in 0..(Len(Bytes[sent[c][1]]) - 1)
       /\ (pace[c] = "cut") = (off[c] # 0)
       /\ link[c] = "closed" => sent[c] = <<>>

(* Only a read of exactly one message in RESP, with nothing lost, makes the *)
(* server do something when it starts where the message does: a part of it, *)
(* more than it, or what a lost byte has left of it is a protocol error, or *)
(* no request at all (server/protocol.c, tests/protocol_err_test.rb).      *)
OnlyWholeMessagesRun ==
  [][\A c \in Clients :
       (/\ sent[c] # <<>> /\ off[c] = 0 /\ sent[c][1].form = "resp"
        /\ reply'[c] \notin {reply[c], Silent, ProtocolError})
       => /\ sent[c][1].lost = 0 /\ off'[c] = 0
          /\ sent'[c] = Tail(sent[c])]_vars

(* The requests no byte of which has been read, and what a client whose     *)
(* connection is not open has of each part of the service: what a new one  *)
(* begins with.                                                            *)
Untouched(c) ==
  LET first == IF off[c] = 0 THEN 1 ELSE 2
  IN [i \in 1..(Len(sent[c]) - first + 1) |-> Request(sent[c][first + i - 1])]

Open(c) == link[c] = "open"
OpenPending == [c \in Clients |-> IF Open(c) THEN Untouched(c) ELSE <<>>]
OpenReply == [c \in Clients |-> IF Open(c) THEN reply[c] ELSE Silent]
OpenPace == [c \in Clients |-> IF Open(c) THEN pace[c] ELSE "whole"]

(* Each client is served as if it were alone, its requests in order and as *)
(* they were sent, as far as the reads bring them one by one.              *)
S == INSTANCE Service WITH
       Requests <- {Request(m) : m \in Messages},
       pending <- OpenPending, reply <- OpenReply, pace <- OpenPace
ImplementsService == S!Spec

(* Who asks for something hears something, in however many parts it comes  *)
(* and whatever has been lost of it, unless the client leaves or the server *)
(* has overrun its buffer.                                                 *)
Asking(c) ==
  Open(c) /\ \E i \in DOMAIN sent[c] : (i > 1 \/ off[c] = 0) /\ sent[c][i].args # <<>>
Answered == \A c \in Clients : Asking(c) ~> (reply[c] # Silent \/ ~Open(c) \/ down)
=============================================================================
