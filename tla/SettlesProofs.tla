--------------------------- MODULE SettlesProofs ---------------------------
(***************************************************************************)
(* Proofs about what was begun and has to end: turns of the app server     *)
(* (CodexAppServer) and in a Claude session, updates of a provider's CLI,  *)
(* of the program, and its switch to another installation.                 *)
(* Each component has its inductive invariant and a theorem about its own  *)
(* specification; the last part carries them over to MCSpec.               *)
(*                                                                         *)
(*   CodexInv   the manager does not compare a completion with the turn it *)
(*              waits for.  That it never takes one turn's end for         *)
(*              another's rests on the pipes: a start or an end on its way *)
(*              is the last turn's, once (OneTurn); a turn that is not     *)
(*              pending has left nothing behind (Over); the reply to an    *)
(*              interrupt comes after the turn's end (Interrupting);       *)
(*              questions wait for a turn that runs (Queue)                *)
(*   ClaudeInv  a session that runs is the chat's (Shown), whose launch    *)
(*              and active turn agree with it (Entered), and a loop waits  *)
(*              for each prompt that the process has (Awaited)             *)
(*   CliInv     an installer at work is in the records, so recovery finds  *)
(*              it (Known), and what was started is counted (Sound)        *)
(*   UpdateInv  the journal says where the worker is (UpdatePhased,        *)
(*              Journalled) and which copy holds the user's data (Safe)    *)
(*   SwitchInv  the two journals say where the helper is (SwitchPhased),   *)
(*              and what has been switched there (Switched)                *)
(***************************************************************************)
EXTENDS MCSettles, FiniteSetTheorems, TLAPS

-----------------------------------------------------------------------------
(***************************************************************************)
(* Turns of the app server (CodexAppServer).                               *)
(***************************************************************************)
(* Types. *)

Phases == {"idle", "opening", "ready", "starting", "registering", "running", "cancelling", "stopping", "failed"}

Context == [closed : BOOLEAN, pending : Turns \cup {None}]
Child == [alive : BOOLEAN, turn : Nat \cup {None}, asked : SUBSET Nat]
Kinds == {"open", "start", "interrupt", "steer", "answer", "ask", "completed", "plan", "interrupted", "error"}
Streams == {"none", "open", "completed", "plan", "interrupted", "cut", "failed"}
Message == [kind : Kinds, n : Nat, ok : BOOLEAN]

TypeOK ==
  /\ context \in Context \cup {None} /\ phase \in Phases
  /\ turns \in 0..MaxTurns /\ (phase # "idle" => turns \in Turns)
  /\ known \subseteq Turns /\ stream \in [Turns -> Streams]
  /\ chain \in Seq(Nat) /\ slot \in Nat \cup {None} /\ responses \in [Clients -> Nat \cup {None}]
  /\ child \in Child /\ toServer \in Seq(Message) /\ toClient \in Seq(Message)
  /\ asks \in 0..MaxAsks /\ finished \subseteq Nat /\ doubled \in BOOLEAN

-----------------------------------------------------------------------------
(* The inductive invariant. *)

\* What ends a turn at the provider.
Ends == {"completed", "plan", "interrupted", "error"}

\* Where the messages of some kinds are on their way.
Out(kinds) == {i \in DOMAIN toServer : toServer[i].kind \in kinds}
Back(kinds) == {i \in DOMAIN toClient : toClient[i].kind \in kinds}

\* No turn is about to start, at work, or ended without the manager having read it.
Quiet == child.turn = None /\ Out({"start"}) = {} /\ Back(Ends) = {}

\* A turn's start and end are on their way once, and only for the coordinator's turn.
OneTurn ==
  /\ child.turn \in {None, turns}
  /\ child.turn # None => Out({"start"}) = {} /\ Back(Ends) = {}
  /\ \A i \in Out({"start"}) :
       /\ toServer[i].n = turns /\ toServer[i].ok
       /\ phase = "starting" /\ Back(Ends \cup {"start"}) = {}
       /\ \A j \in Out({"start"}) : i = j
  /\ \A i \in Back({"start"}) :
       /\ phase = "starting" /\ (~toClient[i].ok => Quiet)
       /\ \A j \in Back({"start"}) : i = j
  /\ \A i, j \in Back(Ends) : i = j
  /\ \A i \in Back({"completed", "plan"}) : toClient[i].n = turns /\ turns \in finished

\* What the manager takes for over is over: a turn that is not pending, or whose plan was read.
Over ==
  /\ context.pending \in {None, turns}
  /\ context.pending = None /\ phase # "stopping" => Quiet
  /\ phase \in {"idle", "ready", "opening", "failed", "stopping"} => context.pending = None
  /\ phase \in {"registering", "running", "cancelling"} /\ turns \notin known => Quiet
  /\ context.pending # None => stream[turns] = "open"

\* An interrupt is answered after the end of the turn that it interrupts.
Interrupting ==
  /\ \A i \in Out({"interrupt"}) :
       /\ phase = "stopping" /\ toServer[i].n = turns /\ Back({"interrupt"}) = {}
       /\ \A j \in Out({"interrupt"}) : i = j
  /\ \A i \in Back({"interrupt"}) :
       /\ phase = "stopping" /\ child.turn = None /\ Out({"start"}) = {}
       /\ \A j \in Back(Ends) : j < i
       /\ \A j \in Back({"interrupt"}) : i = j

\* The questions are those of a turn that runs, and a plan ends the provider's work.
Queue ==
  /\ chain # <<>> => phase \in {"running", "cancelling"}
  /\ \A i \in DOMAIN chain : chain[i] = Plan => turns \in finished /\ (Open => Quiet)
  /\ \A i \in Back({"ask"}) : toClient[i].n \in 1..MaxAsks

Closed == context # None /\ context.closed => context.pending = None

Session == Open => OneTurn /\ Over /\ Interrupting

CodexInv == TypeOK /\ Closed /\ Queue /\ OwnCompletion /\ QuestionIsAsked /\ Session
-----------------------------------------------------------------------------
(* Messages. *)

LEMMA AnswerType ==
  ASSUME NEW n \in Nat
  PROVE  Msg("answer", n) \in Message /\ Msg("answer", n).kind = "answer"
BY DEF Msg, Message, Kinds

\* What is sent comes last; what is read was first.
LEMMA Sending ==
  ASSUME NEW s \in Seq(Message), NEW t \in Seq(Message)
  PROVE  /\ s \o t \in Seq(Message) /\ DOMAIN (s \o t) = 1..(Len(s) + Len(t))
         /\ \A i \in DOMAIN s : i \in DOMAIN (s \o t) /\ (s \o t)[i] = s[i]
         /\ \A i \in DOMAIN (s \o t) :
              \/ i \in DOMAIN s /\ (s \o t)[i] = s[i]
              \/ i > Len(s) /\ i - Len(s) \in DOMAIN t /\ (s \o t)[i] = t[i - Len(s)]
BY DEF Message

LEMMA CodexReading ==
  ASSUME NEW s \in Seq(Message), s # <<>>
  PROVE  /\ Head(s) \in Message /\ 1 \in DOMAIN s /\ Head(s) = s[1]
         /\ Tail(s) \in Seq(Message)
         /\ \A i \in DOMAIN Tail(s) : i + 1 \in DOMAIN s /\ Tail(s)[i] = s[i + 1]
<1>1. Len(s) \in Nat \ {0} /\ DOMAIN s = 1..Len(s)
  OBVIOUS
<1>2. Tail(s) \in Seq(Message) /\ Len(Tail(s)) = Len(s) - 1 /\ DOMAIN Tail(s) = 1..(Len(s) - 1)
  BY <1>1
<1>3. \A i \in 1..(Len(s) - 1) : Tail(s)[i] = s[i + 1]
  BY <1>1
<1>4. Head(s) = s[1] /\ s[1] \in Message
  BY <1>1
<1> QED BY <1>1, <1>2, <1>3, <1>4

LEMMA AnswersType ==
  ASSUME NEW given \in Seq(Nat), given # <<>>
  PROVE  /\ Answers(given) \in Seq(Message)
         /\ \A i \in DOMAIN Answers(given) : Answers(given)[i].kind = "answer"
<1> DEFINE n == Len(given)
           k == IF given[n] = Plan THEN n - 1 ELSE n
<1>1. n \in Nat \ {0} /\ k \in Nat /\ k <= n
  OBVIOUS
<1>2. \A i \in 1..k : Msg("answer", given[i]) \in Message /\ Msg("answer", given[i]).kind = "answer"
  <2> TAKE i \in 1..k
  <2>1. given[i] \in Nat
    BY <1>1
  <2> HIDE DEF n, k
  <2> QED BY <2>1, AnswerType
<1> HIDE DEF k
<1>3. Answers(given) = [i \in 1..k |-> Msg("answer", given[i])]
  BY DEF Answers, k
<1> QED BY <1>1, <1>2, <1>3

\* The messages of some kinds in t are messages of s, in the same order.
Fewer(s, t, kinds) ==
  \E d \in {0, 1} : \A i \in DOMAIN t : t[i].kind \in kinds => i + d \in DOMAIN s /\ t[i] = s[i + d]

\* What the proofs follow: towards the server, and from it.
Orders == {"start", "interrupt"}
News == Ends \cup Orders

LEMMA SendsOthers ==
  ASSUME NEW s \in Seq(Message), NEW t \in Seq(Message), NEW kinds, \A i \in DOMAIN t : t[i].kind \notin kinds
  PROVE  Fewer(s, s \o t, kinds)
<1> SUFFICES \A i \in DOMAIN (s \o t) : (s \o t)[i].kind \in kinds => i + 0 \in DOMAIN s
             /\ (s \o t)[i] = s[i + 0]
  BY DEF Fewer
<1> TAKE i \in DOMAIN (s \o t)
<1>1. i \in Nat /\ i + 0 = i
  BY Sending
<1> QED BY <1>1, Sending

LEMMA CodexSame == ASSUME NEW s \in Seq(Message), NEW kinds PROVE Fewer(s, s, kinds)
<1>1. \A i \in DOMAIN s : i + 0 = i
  OBVIOUS
<1> QED BY <1>1 DEF Fewer

LEMMA ReadsOne == ASSUME NEW s \in Seq(Message), s # <<>>, NEW kinds PROVE Fewer(s, Tail(s), kinds)
BY CodexReading DEF Fewer

LEMMA Lost == ASSUME NEW s, NEW kinds PROVE Fewer(s, <<>>, kinds)
BY DEF Fewer

\* writeMessage, of replies to questions or of other messages the proofs do not follow.
LEMMA Writes ==
  ASSUME toServer \in Seq(Message), NEW msgs \in Seq(Message), writeMessage(msgs),
         NEW kinds, \A i \in DOMAIN msgs : msgs[i].kind \notin kinds
  PROVE  toServer' \in Seq(Message) /\ Fewer(toServer, toServer', kinds)
BY Sending, SendsOthers, CodexSame DEF writeMessage

LEMMA Replies ==
  ASSUME toServer \in Seq(Message), NEW given \in Seq(Nat), given # <<>>, writeMessage(Answers(given))
  PROVE  toServer' \in Seq(Message) /\ Fewer(toServer, toServer', Orders)
<1>1. /\ Answers(given) \in Seq(Message)
      /\ \A i \in DOMAIN Answers(given) : Answers(given)[i].kind \notin Orders
  BY AnswersType DEF Orders
<1> QED BY <1>1, Writes

LEMMA OneMessage ==
  ASSUME NEW m \in Message
  PROVE  <<m>> \in Seq(Message) /\ DOMAIN <<m>> = {1} /\ <<m>>[1] = m /\ Len(<<m>>) = 1
OBVIOUS

-----------------------------------------------------------------------------
(* Types are kept. *)

LEMMA Bounds == /\ MaxTurns \in Nat /\ MaxAsks \in Nat /\ None \notin Nat /\ Plan \in Nat
                /\ Turns \subseteq Nat /\ \A a \in 1..MaxAsks : a # Plan
BY AppServerAssumption DEF Plan, Turns

LEMMA OneWrite ==
  ASSUME TypeOK, NEW m \in Message, writeMessage(<<m>>)
  PROVE  /\ toServer' \in Seq(Message)
         /\ m.kind \notin Orders => Fewer(toServer, toServer', Orders)
<1>1. <<m>> \in Seq(Message) /\ \A i \in DOMAIN <<m>> : <<m>>[i] = m
  BY OneMessage
<1>2. toServer \in Seq(Message)
  BY DEF TypeOK
<1>3. m.kind \notin Orders => Fewer(toServer, toServer', Orders)
  BY <1>1, <1>2, Writes
<1> QED BY <1>1, <1>2, <1>3, Sending DEF writeMessage

\* A question is asked, queued or refused.
LEMMA ToolRequest ==
  ASSUME TypeOK, NEW a \in Nat, onToolRequest(a)
  PROVE  /\ chain' \in Seq(Nat) /\ slot' \in Nat \cup {None} /\ toServer' \in Seq(Message)
         /\ Fewer(toServer, toServer', Orders)
         /\ \/ chain' = chain /\ slot' = slot
            \/ /\ chain' = Append(chain, a)
               /\ (chain # <<>> /\ slot' = slot) \/ (phase = "running" /\ slot' = a /\ chain = <<>>)
<1>1. toServer \in Seq(Message) /\ chain \in Seq(Nat) /\ slot \in Nat \cup {None}
  BY DEF TypeOK
<1>2. <<a>> \in Seq(Nat) /\ <<a>> # <<>> /\ Append(chain, a) \in Seq(Nat) /\ Append(<<>>, a) = <<a>>
  BY <1>1
<1>3. CASE chain # <<>>
  <2>1. chain' = Append(chain, a) /\ slot' = slot /\ toServer' = toServer
    BY <1>3 DEF onToolRequest
  <2>2. Fewer(toServer, toServer', Orders)
    BY <1>1, <2>1, CodexSame
  <2> QED BY <1>1, <1>2, <1>3, <2>1, <2>2
<1>4. CASE chain = <<>> /\ phase = "running"
  BY <1>1, <1>2, <1>4, CodexSame DEF onToolRequest
<1>5. CASE chain = <<>> /\ phase # "running"
  BY <1>1, <1>2, <1>5, Replies DEF onToolRequest
<1> QED BY <1>3, <1>4, <1>5

\* The first question leaves the chain, with the others if the turn is being cancelled.
LEMMA Resolves ==
  ASSUME TypeOK, chain # <<>>, Resolve
  PROVE  /\ chain' \in Seq(Nat) /\ slot' \in Nat \cup {None} /\ toServer' \in Seq(Message)
         /\ Fewer(toServer, toServer', Orders)
         /\ chain' = <<>> \/ chain' = Tail(chain)
         /\ phase = "running" /\ chain' # <<>> => slot' = Head(chain')
<1>1. toServer \in Seq(Message) /\ chain \in Seq(Nat)
  BY DEF TypeOK
<1>a. Head(chain) \in Nat
  BY <1>1
<1>2. <<Head(chain)>> \in Seq(Nat) /\ <<Head(chain)>> # <<>> /\ Tail(chain) \in Seq(Nat)
  BY <1>1, <1>a
<1>3. toServer' \in Seq(Message) /\ Fewer(toServer, toServer', Orders)
  <2>1. CASE phase = "running"
    BY <1>1, <1>2, <2>1, Replies DEF Resolve
  <2>2. CASE phase # "running"
    BY <1>1, <2>2, Replies DEF Resolve
  <2> QED BY <2>1, <2>2
<1>4. Len(chain) > 1 => chain[2] \in Nat /\ Head(Tail(chain)) = chain[2]
  BY <1>1
<1>5. Tail(chain) # <<>> => Len(chain) > 1
  BY <1>1
<1>6. chain' = Tail(chain) \/ chain' = <<>>
  BY DEF Resolve
<1>7. slot' \in Nat \cup {None}
  BY <1>4 DEF Resolve
<1>8. phase = "running" /\ chain' # <<>> => slot' = Head(chain')
  BY <1>4, <1>5 DEF Resolve
<1>9. chain' \in Seq(Nat)
  <2>1. <<>> \in Seq(Nat)
    OBVIOUS
  <2> QED BY <1>2, <1>6, <2>1
<1> QED BY <1>3, <1>6, <1>7, <1>8, <1>9

LEMMA PlanType ==
  ASSUME TypeOK, PlanResolved
  PROVE  context' \in Context \cup {None} /\ stream' \in [Turns -> Streams]
<1>1. CASE Head(chain) = Plan /\ Pending # None
  <2>1. context \in Context
    BY <1>1 DEF TypeOK, Pending
  <2> QED BY <1>1, <2>1 DEF PlanResolved, TypeOK, Context, Streams
<1>2. CASE ~(Head(chain) = Plan /\ Pending # None)
  BY <1>2 DEF PlanResolved, TypeOK
<1> QED BY <1>1, <1>2

LEMMA TypeInit == Init => TypeOK
<1>1. <<>> \in Seq(Nat) /\ <<>> \in Seq(Message)
  OBVIOUS
<1> SUFFICES ASSUME Init PROVE TypeOK
  OBVIOUS
<1>2. child \in Child /\ stream \in [Turns -> Streams]
  BY DEF Init, NoChild, Child, Streams
<1>3. chain \in Seq(Nat) /\ toServer \in Seq(Message) /\ toClient \in Seq(Message)
  BY <1>1 DEF Init
<1>4. responses \in [Clients -> Nat \cup {None}] /\ turns \in 0..MaxTurns /\ asks \in 0..MaxAsks
  BY Bounds DEF Init
<1> QED BY <1>2, <1>3, <1>4 DEF Init, TypeOK, Phases

LEMMA ToolsTyped ==
  ASSUME TypeOK, NEW c \in Clients, respondTool(c) \/ AnswerWritten(c)
  PROVE  TypeOK'
<1>1. CASE respondTool(c)
  BY <1>1 DEF respondTool, TypeOK, manager, provider
<1>2. CASE AnswerWritten(c) /\ chain # <<>> /\ Head(chain) = responses[c]
  <2>1. Resolve /\ PlanResolved /\ UNCHANGED doubled
    BY <1>2 DEF AnswerWritten
  <2>2. /\ chain' \in Seq(Nat) /\ slot' \in Nat \cup {None} /\ toServer' \in Seq(Message)
        /\ context' \in Context \cup {None} /\ stream' \in [Turns -> Streams]
    BY <1>2, <2>1, Resolves, PlanType
  <2> QED BY <1>2, <2>1, <2>2 DEF AnswerWritten, TypeOK
<1>3. CASE AnswerWritten(c) /\ ~(chain # <<>> /\ Head(chain) = responses[c])
  BY <1>3 DEF AnswerWritten, TypeOK
<1> QED BY <1>1, <1>2, <1>3

LEMMA MsgTypes ==
  ASSUME NEW n \in Nat
  PROVE  \A kind \in Kinds : Msg(kind, n) \in Message /\ Msg(kind, n).kind = kind /\ Msg(kind, n).n = n
BY DEF Msg, Message

LEMMA CoordinateTyped ==
  ASSUME TypeOK, Coordinate
  PROVE  TypeOK'
<1>1. CASE startSession
  <2>1. CASE Open /\ phase' = "ready" /\ UNCHANGED <<context, child, toServer, toClient, spawns, steering>>
    BY <1>1, <2>1, Bounds DEF startSession, TypeOK, tools, Phases, Turns
  <2>2. CASE ~(Open /\ phase' = "ready" /\ UNCHANGED <<context, child, toServer, toClient, spawns, steering>>)
    <3>1. /\ context' = [closed |-> FALSE, pending |-> None] /\ child' = [NoChild EXCEPT !.alive = TRUE]
          /\ toServer' = <<Msg("open", 0)>> /\ toClient' = <<>> /\ phase' = "opening"
      BY <1>1, <2>2 DEF startSession
    <3>2. context' \in Context /\ child' \in Child
      BY <3>1 DEF Context, NoChild, Child
    <3>3. toServer' \in Seq(Message) /\ toClient' \in Seq(Message)
      <4>1. Msg("open", 0) \in Message
        BY DEF Msg, Message, Kinds
      <4> QED BY <3>1, <4>1
    <3>4. turns' \in 0..MaxTurns /\ turns' \in Turns /\ UNCHANGED <<tools, known, stream, finished>>
      BY <1>1, Bounds DEF startSession, TypeOK, Turns
    <3> QED BY <3>1, <3>2, <3>3, <3>4 DEF TypeOK, tools, Phases
  <2> QED BY <2>1, <2>2
<1>2. CASE startTurn
  <2>1. CASE Open /\ context.pending = None
    <3>1. context \in Context /\ turns \in Turns /\ turns \in Nat /\ Msg("start", turns) \in Message
      BY <1>2, <2>1, Bounds DEF startTurn, TypeOK, Open, Msg, Message, Kinds
    <3>2. toServer' \in Seq(Message)
      BY <1>2, <2>1, <3>1, OneWrite DEF startTurn
    <3>3. context' \in Context /\ phase' = "starting"
      BY <1>2, <2>1, <3>1 DEF startTurn, Context
    <3>5. stream' \in [Turns -> Streams]
      BY <1>2, <2>1, <3>1 DEF startTurn, TypeOK, Streams
    <3>4. UNCHANGED <<tools, known, child, toClient, finished, turns>>
      BY <1>2 DEF startTurn
    <3> QED BY <3>1, <3>2, <3>3, <3>4, <3>5 DEF TypeOK, tools, Phases
  <2>2. CASE ~(Open /\ context.pending = None)
    BY <1>2, <2>2 DEF startTurn, TypeOK, tools, Phases
  <2> QED BY <2>1, <2>2
<1>3. CASE Register \/ RetryStop
  BY <1>3 DEF Register, RetryStop, manager, tools, provider, TypeOK, Phases
<1>4. CASE StreamEnds
  <2>1. <<>> \in Seq(Nat)
    OBVIOUS
  <2> QED BY <1>4, <2>1 DEF StreamEnds, NoTools, manager, provider, TypeOK, Phases
<1>5. CASE Esc
  <2>1. <<>> \in Seq(Nat)
    OBVIOUS
  <2>2. chain' \in Seq(Nat)
    BY <1>5, <2>1 DEF Esc, TypeOK
  <2> QED BY <1>5, <2>2 DEF Esc, manager, provider, TypeOK, Phases
<1>6. CASE Discard
  <2>1. /\ chain' \in Seq(Nat) /\ slot' \in Nat \cup {None} /\ toServer' \in Seq(Message)
        /\ context' \in Context \cup {None} /\ stream' \in [Turns -> Streams]
    BY <1>6, Resolves, PlanType DEF Discard
  <2> QED BY <1>6, <2>1 DEF Discard, TypeOK
<1>7. CASE interrupt
  <2>1. <<>> \in Seq(Nat)
    OBVIOUS
  <2>2. chain' \in Seq(Nat) /\ slot' = None /\ responses' \in [Clients -> Nat \cup {None}]
    BY <1>7, <2>1 DEF interrupt, NoTools
  <2>3. UNCHANGED <<known, asks, doubled, child, toClient, finished, turns>> /\ phase = "cancelling"
    BY <1>7 DEF interrupt
  <2>4. CASE Pending = None
    BY <1>7, <2>2, <2>3, <2>4 DEF interrupt, TypeOK, Phases
  <2>5. CASE Pending # None
    <3>1. context \in Context /\ Pending = context.pending /\ Pending \in Turns /\ Pending \in Nat
      BY <2>5, Bounds DEF Pending, TypeOK, Context
    <3>2. context' \in Context /\ stream' \in [Turns -> Streams] /\ phase' \in {"idle", "stopping"}
      BY <1>7, <2>5, <3>1 DEF interrupt, TypeOK, Context, Streams
    <3>3. toServer' \in Seq(Message)
      <4>1. Msg("interrupt", Pending) \in Message
        BY <3>1 DEF Msg, Message, Kinds
      <4>2. CASE Pending \in known
        BY <1>7, <2>5, <4>1, <4>2, OneWrite DEF interrupt
      <4>3. CASE Pending \notin known
        BY <1>7, <2>5, <4>3 DEF interrupt, TypeOK
      <4> QED BY <4>2, <4>3
    <3> QED BY <2>2, <2>3, <3>2, <3>3 DEF TypeOK, Phases
  <2> QED BY <2>4, <2>5
<1>8. CASE steerTurn
  <2>1. Msg("steer", context.pending) \in Message
    <3>1. context.pending \in Nat
      BY <1>8, Bounds DEF steerTurn, Open, TypeOK, Context
    <3> QED BY <3>1 DEF Msg, Message, Kinds
  <2>2. toServer' \in Seq(Message)
    BY <1>8, <2>1, OneWrite DEF steerTurn
  <2> QED BY <1>8, <2>2 DEF steerTurn, tools, TypeOK
<1>9. CASE CloseSession
  <2>1. child' \in Child /\ toServer' = <<>> /\ toClient' = <<>> /\ context' = None
    BY <1>9 DEF CloseSession, stopSession, NoChild, Child
  <2>2. <<>> \in Seq(Message)
    OBVIOUS
  <2> QED BY <1>9, <2>1, <2>2 DEF CloseSession, tools, TypeOK
<1> QED
  BY <1>1, <1>2, <1>3, <1>4, <1>5, <1>6, <1>7, <1>8, <1>9 DEF Coordinate

LEMMA Saying ==
  ASSUME TypeOK, NEW m \in Message, Say(<<m>>)
  PROVE  toClient' \in Seq(Message)
<1>1. toClient \in Seq(Message) /\ <<m>> \in Seq(Message)
  BY DEF TypeOK
<1> QED BY <1>1, Sending DEF Say

LEMMA ProviderTyped ==
  ASSUME TypeOK, Serve \/ Asks \/ Completes \/ Errs \/ Dies
  PROVE  TypeOK'
<1>1. CASE Serve
  <2> DEFINE m == Head(toServer)
             no == [m EXCEPT !.ok = FALSE]
  <2>1. toServer \in Seq(Message) /\ toServer # <<>> /\ toClient \in Seq(Message) /\ toServer' = Tail(toServer)
    BY <1>1 DEF Serve, TypeOK
  <2>2. m \in Message /\ toServer' \in Seq(Message)
    BY <2>1, CodexReading
  <2>3. m.kind \in Kinds /\ m.n \in Nat /\ no \in Message /\ Msg("interrupted", m.n) \in Message
    BY <2>2 DEF Message, Msg, Kinds
  <2> HIDE DEF m, no
  <2>4. <<m>> \in Seq(Message) /\ <<no>> \in Seq(Message) /\ <<Msg("interrupted", m.n), m>> \in Seq(Message)
    BY <2>2, <2>3
  <2>5. \A msgs \in Seq(Message) : Say(msgs) => toClient' \in Seq(Message)
    BY <2>1, Sending DEF Say
  <2>6. toClient' \in Seq(Message)
    <3>1. toClient' = toClient \/ Say(<<m>>) \/ Say(<<no>>) \/ Say(<<Msg("interrupted", m.n), m>>)
      BY <1>1 DEF Serve, m, no
    <3> QED BY <2>1, <2>4, <2>5, <3>1
  <2>7. child' \in Child
    <3>1. \/ child' = child \/ child' = [child EXCEPT !.turn = m.n]
          \/ child' = [child EXCEPT !.turn = None, !.asked = {}]
          \/ child' = [child EXCEPT !.asked = child.asked \ {m.n}]
      BY <1>1 DEF Serve, m
    <3> QED BY <2>3, <3>1 DEF TypeOK, Child
  <2>8. UNCHANGED <<manager, tools, finished, phase, turns>>
    BY <1>1 DEF Serve
  <2> QED BY <2>2, <2>6, <2>7, <2>8 DEF TypeOK, manager, tools
<1>2. CASE Asks
  <2>1. asks + 1 \in Nat /\ asks' \in 0..MaxAsks
    BY <1>2, Bounds DEF Asks, TypeOK
  <2>4. child' \in Child
    BY <1>2, <2>1 DEF Asks, TypeOK, Child
  <2>2. Msg("ask", asks + 1) \in Message
    BY <2>1 DEF Msg, Message, Kinds
  <2>3. toClient' \in Seq(Message)
    BY <1>2, <2>2, Saying DEF Asks
  <2> QED BY <1>2, <2>1, <2>3, <2>4 DEF Asks, manager, TypeOK
<1>3. CASE Completes
  <2>1. child.turn \in Nat /\ child' \in Child /\ finished' \subseteq Nat
    BY <1>3 DEF Completes, TypeOK, Child
  <2>2. Msg("completed", child.turn) \in Message /\ Msg("plan", child.turn) \in Message
    BY <2>1 DEF Msg, Message, Kinds
  <2>3. toClient' \in Seq(Message)
    <3>1. Say(<<Msg("completed", child.turn)>>) \/ Say(<<Msg("plan", child.turn)>>)
      BY <1>3 DEF Completes
    <3> QED BY <2>2, <3>1, Saying
  <2> QED BY <1>3, <2>1, <2>3 DEF Completes, manager, tools, TypeOK
<1>4. CASE Errs
  <2>1. child.turn \in Nat /\ child' \in Child
    BY <1>4 DEF Errs, TypeOK, Child
  <2>2. Msg("error", child.turn) \in Message
    BY <2>1 DEF Msg, Message, Kinds
  <2>3. toClient' \in Seq(Message)
    BY <1>4, <2>2, Saying DEF Errs
  <2> QED BY <1>4, <2>1, <2>3 DEF Errs, manager, tools, TypeOK
<1>5. CASE Dies
  <2>1. child' \in Child /\ toServer' = <<>>
    BY <1>5 DEF Dies, NoChild, Child
  <2>2. <<>> \in Seq(Message)
    OBVIOUS
  <2> QED BY <1>5, <2>1, <2>2 DEF Dies, manager, tools, TypeOK
<1> QED BY <1>1, <1>2, <1>3, <1>4, <1>5

LEMMA FailTyped ==
  ASSUME TypeOK, context # None, failContext
  PROVE  /\ context' \in Context \cup {None} /\ stream' \in [Turns -> Streams]
         /\ phase' \in Phases /\ (phase' # "idle" => phase # "idle")
<1>1. context \in Context
  BY DEF TypeOK
<1>2. context' \in Context \cup {None}
  BY <1>1 DEF failContext, Context
<1>3. stream' \in [Turns -> Streams]
  BY DEF failContext, TypeOK, Streams
<1> QED BY <1>2, <1>3 DEF failContext, TypeOK, Phases

LEMMA ReadTyped ==
  ASSUME TypeOK, Read
  PROVE  TypeOK'
<1> DEFINE m == Head(toClient)
<1>1. toClient \in Seq(Message) /\ toClient # <<>> /\ toClient' = Tail(toClient) /\ context \in Context
  BY DEF Read, TypeOK
<1>2. m \in Message /\ toClient' \in Seq(Message)
  BY <1>1, CodexReading
<1>3. m.kind \in Kinds /\ m.n \in Nat
  BY <1>2 DEF Message
<1>4. UNCHANGED <<responses, asks, doubled, finished, turns>>
  BY DEF Read
<1>5. \/ handleResponse(m) /\ UNCHANGED <<chain, slot>>
      \/ handleNotification(m) \/ handleServerRequest(m) \/ Ignored(m)
  BY DEF Read
<1> HIDE DEF m
<1>6. CASE handleResponse(m) /\ UNCHANGED <<chain, slot>>
  <2>1. /\ phase' = phase \/ (phase' \in Phases /\ phase # "idle")
        /\ known' = known \/ (known' = known \cup {turns} /\ phase # "idle")
        /\ child' = child \/ child' = NoChild
        /\ toServer' = toServer \/ toServer' = <<>>
        /\ context' = context \/ context' = None \/ context' = [context EXCEPT !.pending = None]
        /\ stream' = stream \/ stream' = [stream EXCEPT ![turns] = "cut"]
    BY <1>6 DEF handleResponse, Phases
  <2>2. child' \in Child
    <3>1. NoChild \in Child
      BY DEF NoChild, Child
    <3> QED BY <2>1, <3>1 DEF TypeOK
  <2>4. context' \in Context \cup {None}
    BY <1>1, <2>1 DEF Context
  <2>5. stream' \in [Turns -> Streams]
    BY <2>1 DEF TypeOK, Streams
  <2>6. <<>> \in Seq(Message)
    OBVIOUS
  <2>7. toServer' \in Seq(Message)
    BY <2>1, <2>6 DEF TypeOK
  <2>3. known' \subseteq Turns
    BY <2>1 DEF TypeOK
  <2> QED BY <1>2, <1>4, <1>6, <2>1, <2>2, <2>3, <2>4, <2>5, <2>7 DEF TypeOK, Phases
<1>7. CASE handleNotification(m)
  <2>1. CASE m.kind = "error" /\ failContext /\ UNCHANGED <<known, chain, slot, child, toServer>>
    <3>1. /\ context' \in Context \cup {None} /\ stream' \in [Turns -> Streams]
          /\ phase' \in Phases /\ (phase' # "idle" => phase # "idle")
      BY <2>1, FailTyped DEF Read
    <3> QED BY <1>2, <1>4, <2>1, <3>1 DEF TypeOK
  <2>2. CASE m.kind = "plan" /\ handleTurnCompleted(m) /\ UNCHANGED child
    <3>1. onToolRequest(Plan) /\ known' \subseteq known /\ UNCHANGED <<context, stream, phase, child>>
      BY <2>2 DEF handleTurnCompleted
    <3>2. chain' \in Seq(Nat) /\ slot' \in Nat \cup {None} /\ toServer' \in Seq(Message)
      BY <3>1, ToolRequest, Bounds
    <3> QED BY <1>2, <1>4, <3>1, <3>2 DEF TypeOK
  <2>3. CASE m.kind \in {"completed", "interrupted"} /\ handleTurnCompleted(m) /\ UNCHANGED child
    <3>1. context' = [context EXCEPT !.pending = None] /\ stream' = [stream EXCEPT ![Pending] = m.kind]
          /\ UNCHANGED <<known, phase, chain, slot, toServer>>
      BY <2>3 DEF handleTurnCompleted
    <3>2. context' \in Context
      BY <1>1, <3>1 DEF Context
    <3>3. stream' \in [Turns -> Streams]
      BY <2>3, <3>1 DEF TypeOK, Streams
    <3> QED BY <1>2, <1>4, <2>3, <3>1, <3>2, <3>3 DEF TypeOK
  <2> QED BY <1>7, <2>1, <2>2, <2>3 DEF handleNotification
<1>8. CASE handleServerRequest(m)
  <2>1. chain' \in Seq(Nat) /\ slot' \in Nat \cup {None} /\ toServer' \in Seq(Message)
    <3>1. CASE Pending # None
      BY <1>3, <1>8, <3>1, ToolRequest DEF handleServerRequest
    <3>2. CASE Pending = None
      <4>1. <<m.n>> \in Seq(Nat) /\ <<m.n>> # <<>>
        BY <1>3
      <4> QED BY <1>8, <3>2, <4>1, Replies DEF handleServerRequest, TypeOK
    <3> QED BY <3>1, <3>2
  <2> QED BY <1>2, <1>4, <1>8, <2>1 DEF handleServerRequest, TypeOK
<1>9. CASE Ignored(m)
  BY <1>2, <1>4, <1>9 DEF Ignored, TypeOK
<1> QED BY <1>5, <1>6, <1>7, <1>8, <1>9

LEMMA TypeStep ==
  ASSUME TypeOK, [Next]_vars
  PROVE  TypeOK'
<1>1. CASE ProcessClosed
  <2>1. /\ context' \in Context \cup {None} /\ stream' \in [Turns -> Streams]
        /\ phase' \in Phases /\ (phase' # "idle" => phase # "idle")
    BY <1>1, FailTyped DEF ProcessClosed, Open
  <2> QED BY <1>1, <2>1 DEF ProcessClosed, provider, tools, TypeOK
<1>2. CASE UNCHANGED vars
  BY <1>2 DEF vars, manager, tools, provider, TypeOK
<1> QED BY <1>1, <1>2, ToolsTyped, CoordinateTyped, ProviderTyped, ReadTyped DEF Next

-----------------------------------------------------------------------------
(* A step that sends no order and no news keeps what holds of them. *)

NoOrders == Out({"start"}) = {} /\ Out({"interrupt"}) = {} /\ Back({"start"}) = {} /\ Back({"interrupt"}) = {}

LEMMA Thinner ==
  ASSUME TypeOK, TypeOK', OneTurn, Interrupting,
         Fewer(toServer, toServer', Orders), Fewer(toClient, toClient', News),
         child'.turn \in {child.turn, None}, turns' = turns, finished \subseteq finished',
         phase' = phase \/ phase \notin {"starting", "stopping"} \/ NoOrders'
  PROVE  OneTurn' /\ Interrupting' /\ (Quiet => Quiet')
<1>1. PICK d \in {0, 1} : \A i \in DOMAIN toServer' : toServer'[i].kind \in Orders =>
                            i + d \in DOMAIN toServer /\ toServer'[i] = toServer[i + d]
  BY DEF Fewer
<1>2. PICK e \in {0, 1} : \A i \in DOMAIN toClient' : toClient'[i].kind \in News =>
                            i + e \in DOMAIN toClient /\ toClient'[i] = toClient[i + e]
  BY DEF Fewer
<1>3. DOMAIN toServer' \subseteq Nat /\ DOMAIN toClient' \subseteq Nat
  BY DEF TypeOK
<1>4. \A i \in Out({"start"})' : i \in Nat /\ i + d \in Out({"start"}) /\ toServer'[i] = toServer[i + d]
  BY <1>1, <1>3 DEF Out, Orders
<1>5. \A i \in Out({"interrupt"})' : i \in Nat /\ i + d \in Out({"interrupt"}) /\ toServer'[i] = toServer[i + d]
  BY <1>1, <1>3 DEF Out, Orders
<1>6. \A i \in Back(Ends)' : i \in Nat /\ i + e \in Back(Ends) /\ toClient'[i] = toClient[i + e]
  BY <1>2, <1>3 DEF Back, News
<1>7. \A i \in Back({"start"})' : i \in Nat /\ i + e \in Back({"start"}) /\ toClient'[i] = toClient[i + e]
  BY <1>2, <1>3 DEF Back, News, Orders
<1>8. \A i \in Back({"interrupt"})' : i \in Nat /\ i + e \in Back({"interrupt"})
      /\ toClient'[i] = toClient[i + e]
  BY <1>2, <1>3 DEF Back, News, Orders
<1>9. \A i \in Back({"completed", "plan"})' : i + e \in Back({"completed", "plan"})
      /\ toClient'[i] = toClient[i + e]
  BY <1>2, <1>3 DEF Back, News, Ends
<1>10. Back(Ends \cup {"start"}) = Back(Ends) \cup Back({"start"})
  BY DEF Back
<1>11. Back(Ends \cup {"start"})' = Back(Ends)' \cup Back({"start"})'
  BY DEF Back
<1>12. /\ Out({"start"}) = {} => Out({"start"})' = {}
       /\ Back(Ends) = {} => Back(Ends)' = {}
       /\ Back({"start"}) = {} => Back({"start"})' = {}
       /\ Back({"interrupt"}) = {} => Back({"interrupt"})' = {}
  BY <1>4, <1>6, <1>7, <1>8
<1>13. Quiet => Quiet'
  BY <1>12 DEF Quiet
<1>14. OneTurn'
  <2>1. child'.turn \in {None, turns'} /\ (child'.turn # None => Out({"start"})' = {} /\ Back(Ends)' = {})
    BY <1>12 DEF OneTurn
  <2>2. ASSUME NEW i \in Out({"start"})'
        PROVE  /\ toServer'[i].n = turns' /\ toServer'[i].ok
               /\ phase' = "starting" /\ Back(Ends \cup {"start"})' = {}
               /\ \A j \in Out({"start"})' : i = j
    <3>1. /\ i + d \in Out({"start"}) /\ toServer'[i] = toServer[i + d] /\ toServer[i + d].n = turns
          /\ toServer[i + d].ok /\ phase = "starting" /\ Back(Ends \cup {"start"}) = {}
      BY <1>4, <2>2 DEF OneTurn
    <3>2. \A j \in Out({"start"})' : i + d = j + d /\ i \in Nat /\ j \in Nat
      BY <1>4, <2>2, <3>1 DEF OneTurn
    <3>3. \A j \in Out({"start"})' : i = j
      BY <3>2
    <3>4. Back(Ends \cup {"start"})' = {}
      BY <1>10, <1>11, <1>12, <3>1
    <3> QED BY <2>2, <3>1, <3>3, <3>4 DEF NoOrders
  <2>3. ASSUME NEW i \in Back({"start"})'
        PROVE  /\ phase' = "starting" /\ (~toClient'[i].ok => Quiet')
               /\ \A j \in Back({"start"})' : i = j
    <3>1. i + e \in Back({"start"}) /\ toClient'[i] = toClient[i + e] /\ phase = "starting"
      BY <1>7, <2>3 DEF OneTurn
    <3>2. \A j \in Back({"start"})' : i + e = j + e /\ i \in Nat /\ j \in Nat
      BY <1>7, <2>3, <3>1 DEF OneTurn
    <3>3. ~toClient'[i].ok => Quiet'
      BY <1>13, <3>1 DEF OneTurn
    <3> QED BY <2>3, <3>1, <3>2, <3>3 DEF NoOrders
  <2>4. \A i, j \in Back(Ends)' : i = j
    <3> TAKE i, j \in Back(Ends)'
    <3>1. i + e = j + e /\ i \in Nat /\ j \in Nat
      BY <1>6 DEF OneTurn
    <3> QED BY <3>1
  <2>5. \A i \in Back({"completed", "plan"})' : toClient'[i].n = turns' /\ turns' \in finished'
    BY <1>9 DEF OneTurn
  <2> QED BY <2>1, <2>2, <2>3, <2>4, <2>5 DEF OneTurn
<1>15. Interrupting'
  <2>1. ASSUME NEW i \in Out({"interrupt"})'
        PROVE  /\ phase' = "stopping" /\ toServer'[i].n = turns' /\ Back({"interrupt"})' = {}
               /\ \A j \in Out({"interrupt"})' : i = j
    <3>1. /\ i + d \in Out({"interrupt"}) /\ toServer'[i] = toServer[i + d] /\ toServer[i + d].n = turns
          /\ phase = "stopping" /\ Back({"interrupt"}) = {}
      BY <1>5, <2>1 DEF Interrupting
    <3>2. \A j \in Out({"interrupt"})' : i + d = j + d /\ i \in Nat /\ j \in Nat
      BY <1>5, <2>1, <3>1 DEF Interrupting
    <3> QED BY <1>12, <2>1, <3>1, <3>2 DEF NoOrders
  <2>2. ASSUME NEW i \in Back({"interrupt"})'
        PROVE  /\ phase' = "stopping" /\ child'.turn = None /\ Out({"start"})' = {}
               /\ \A j \in Back(Ends)' : j < i
               /\ \A j \in Back({"interrupt"})' : i = j
    <3>1. /\ i \in Nat /\ i + e \in Back({"interrupt"}) /\ phase = "stopping" /\ child.turn = None
          /\ Out({"start"}) = {}
      BY <1>8, <2>2 DEF Interrupting
    <3>2. \A j \in Back({"interrupt"})' : i + e = j + e /\ j \in Nat
      BY <1>8, <2>2, <3>1 DEF Interrupting
    <3>3. \A j \in Back(Ends)' : j + e < i + e /\ j \in Nat
      BY <1>6, <3>1 DEF Interrupting
    <3> QED BY <1>12, <2>2, <3>1, <3>2, <3>3 DEF NoOrders
  <2> QED BY <2>1, <2>2 DEF Interrupting
<1> QED BY <1>13, <1>14, <1>15

LEMMA OverWhenQuiet ==
  ASSUME Quiet', context'.pending = None
  PROVE  Over'
BY DEF Over

\* The phases in which a turn may be pending.
Busy == {"starting", "registering", "running", "cancelling"}

LEMMA SessionKept ==
  ASSUME TypeOK, TypeOK', Session,
         Fewer(toServer, toServer', Orders), Fewer(toClient, toClient', News),
         child'.turn \in {child.turn, None}, finished \subseteq finished',
         UNCHANGED <<context, turns, known, stream>>,
         \/ phase' = phase
         \/ phase \in {"registering", "running"} /\ phase' \in {"running", "cancelling"}
         \/ phase \notin {"starting", "stopping"} /\ phase' = "idle" /\ (Open => context.pending = None)
  PROVE  Session' /\ (Open /\ Quiet => Quiet')
<1>1. SUFFICES ASSUME Open PROVE OneTurn' /\ Over' /\ Interrupting' /\ (Quiet => Quiet')
  BY DEF Session, Open
<1>2. OneTurn /\ Over /\ Interrupting
  BY <1>1 DEF Session
<1>3. OneTurn' /\ Interrupting' /\ (Quiet => Quiet')
  BY <1>2, Thinner
<1>4. Over'
  BY <1>1, <1>2, <1>3 DEF Over
<1> QED BY <1>3, <1>4

\* The manager stops waiting for a turn that is over.
LEMMA SessionSettled ==
  ASSUME TypeOK, TypeOK', Session, Open => Quiet,
         Fewer(toServer, toServer', Orders), Fewer(toClient, toClient', News),
         child'.turn \in {child.turn, None}, finished \subseteq finished', turns' = turns,
         Open' => Open /\ context'.pending = None,
         phase' = phase \/ phase \notin {"starting", "stopping"} \/ NoOrders'
  PROVE  Session' /\ (Open => Quiet')
<1>1. SUFFICES ASSUME Open PROVE OneTurn' /\ Interrupting' /\ Quiet' /\ (Open' => Over')
  BY DEF Session
<1>2. OneTurn /\ Interrupting /\ Quiet
  BY <1>1 DEF Session
<1>3. OneTurn' /\ Interrupting' /\ Quiet'
  BY <1>2, Thinner
<1> QED BY <1>3, OverWhenQuiet

LEMMA PendingIsLast ==
  ASSUME TypeOK, Closed, Session, Pending # None
  PROVE  Open /\ context \in Context /\ context.pending = turns /\ Pending = turns /\ turns \in Turns
<1>1. context \in Context /\ context # None /\ Pending = context.pending
  BY DEF Pending, TypeOK
<1>2. Open
  BY <1>1 DEF Closed, Open
<1>3. context.pending \in Turns
  BY <1>1 DEF Context
<1> QED BY <1>1, <1>2, <1>3 DEF Session, Over

\* Nothing is sent: for the lemmas above.
LEMMA NoMail ==
  ASSUME TypeOK
  PROVE  /\ toServer' = toServer => Fewer(toServer, toServer', Orders)
         /\ toClient' = toClient => Fewer(toClient, toClient', News)
         /\ toServer' = <<>> => Fewer(toServer, toServer', Orders)
<1>1. toServer \in Seq(Message) /\ toClient \in Seq(Message)
  BY DEF TypeOK
<1>2. Fewer(toServer, toServer, Orders) /\ Fewer(toClient, toClient, News) /\ Fewer(toServer, <<>>, Orders)
  BY <1>1, CodexSame, Lost
<1> QED BY <1>2

-----------------------------------------------------------------------------
(* Questions. *)

\* What is left of the chain was in it.
LEMMA QueueKept ==
  ASSUME Queue, \A i \in DOMAIN chain' : \E j \in DOMAIN chain : chain'[i] = chain[j],
         chain' # <<>> => chain # <<>> /\ phase' \in {"running", "cancelling"},
         turns' = turns, finished \subseteq finished',
         Open' => Open, Open /\ Quiet => Quiet',
         \A i \in Back({"ask"})' : toClient'[i].n \in 1..MaxAsks
  PROVE  Queue'
<1>1. ASSUME NEW i \in DOMAIN chain', chain'[i] = Plan PROVE turns' \in finished' /\ (Open' => Quiet')
  <2>1. PICK j \in DOMAIN chain : chain'[i] = chain[j]
    OBVIOUS
  <2>2. turns \in finished /\ (Open => Quiet)
    BY <1>1, <2>1 DEF Queue
  <2> QED BY <2>2
<1> QED BY <1>1 DEF Queue

\* An approved plan ends its turn, which the provider had completed.
LEMMA PlanRead ==
  ASSUME CodexInv, chain # <<>>, PlanResolved, UNCHANGED <<turns, finished>>
  PROVE  /\ Closed' /\ OwnCompletion' /\ (Open' => Open)
         /\ \/ context' = context /\ stream' = stream
            \/ Open /\ Quiet /\ context'.pending = None
<1>1. CASE Head(chain) = Plan /\ Pending # None
  <2>1. Open /\ context \in Context /\ Pending = turns /\ turns \in Turns
    BY <1>1, PendingIsLast DEF CodexInv
  <2>2. 1 \in DOMAIN chain /\ chain[1] = Plan
    BY <1>1 DEF CodexInv, TypeOK
  <2>3. turns \in finished /\ Quiet
    BY <2>1, <2>2 DEF CodexInv, Queue
  <2>4. context' = [context EXCEPT !.pending = None] /\ stream' = [stream EXCEPT ![turns] = "plan"]
    BY <1>1, <2>1 DEF PlanResolved
  <2>5. context' \in Context /\ context'.pending = None /\ context'.closed = context.closed
    BY <2>1, <2>4 DEF Context
  <2>6. (Open' => Open) /\ Closed'
    BY <2>1, <2>5 DEF Open, Closed
  <2>7. OwnCompletion'
    BY <2>3, <2>4 DEF OwnCompletion, CodexInv, TypeOK
  <2> QED BY <2>1, <2>3, <2>5, <2>6, <2>7
<1>2. CASE ~(Head(chain) = Plan /\ Pending # None)
  BY <1>2 DEF PlanResolved, CodexInv, Closed, OwnCompletion, Open
<1> QED BY <1>1, <1>2

LEMMA RestIsInChain ==
  ASSUME TypeOK, chain # <<>>, chain' = <<>> \/ chain' = Tail(chain)
  PROVE  \A i \in DOMAIN chain' : \E j \in DOMAIN chain : chain'[i] = chain[j]
<1>1. chain \in Seq(Nat)
  BY DEF TypeOK
<1>2. CASE chain' = <<>>
  BY <1>2
<1>3. CASE chain' = Tail(chain)
  <2>1. ASSUME NEW i \in DOMAIN Tail(chain) PROVE i + 1 \in DOMAIN chain /\ Tail(chain)[i] = chain[i + 1]
    BY <1>1, <2>1
  <2> QED BY <1>3, <2>1
<1> QED BY <1>2, <1>3

\* The question asked first is resolved: by an answer, or by a stop that discards it.
LEMMA ResolveKeeps ==
  ASSUME CodexInv, TypeOK', chain # <<>>, Resolve, PlanResolved, phase \in {"running", "cancelling"},
         UNCHANGED <<phase, turns, known, child, toClient, finished, doubled>>
  PROVE  CodexInv'
<1>1. TypeOK /\ Queue /\ Session /\ Closed
  BY DEF CodexInv
<1>2. /\ chain' = <<>> \/ chain' = Tail(chain)
      /\ phase = "running" /\ chain' # <<>> => slot' = Head(chain')
      /\ Fewer(toServer, toServer', Orders)
  BY <1>1, Resolves
<1>3. /\ Closed' /\ OwnCompletion' /\ (Open' => Open)
      /\ \/ context' = context /\ stream' = stream
         \/ Open /\ Quiet /\ context'.pending = None
  BY PlanRead
<1>4. Fewer(toClient, toClient', News)
  BY <1>1, NoMail
<1>5. Session' /\ (Open /\ Quiet => Quiet')
  <2>1. CASE context' = context /\ stream' = stream
    BY <1>1, <1>2, <1>4, <2>1, SessionKept
  <2>2. CASE Open /\ Quiet /\ context'.pending = None
    BY <1>1, <1>2, <1>3, <1>4, <2>2, SessionSettled
  <2> QED BY <1>3, <2>1, <2>2
<1>6. \A i \in Back({"ask"})' : toClient'[i].n \in 1..MaxAsks
  BY <1>1 DEF Queue, Back
<1>7. Queue'
  BY <1>1, <1>2, <1>3, <1>5, <1>6, RestIsInChain, QueueKept
<1>8. QuestionIsAsked'
  BY <1>2 DEF QuestionIsAsked
<1> QED BY <1>3, <1>5, <1>7, <1>8 DEF CodexInv

LEMMA ToolsKeep ==
  ASSUME CodexInv, TypeOK', NEW c \in Clients, respondTool(c) \/ AnswerWritten(c)
  PROVE  CodexInv'
<1>1. CASE AnswerWritten(c) /\ chain # <<>> /\ Head(chain) = responses[c]
  <2>1. phase \in {"running", "cancelling"}
    BY <1>1 DEF CodexInv, Queue
  <2>2. Resolve /\ PlanResolved /\ UNCHANGED <<phase, turns, known, child, toClient, finished, doubled>>
    BY <1>1 DEF AnswerWritten
  <2> QED BY <1>1, <2>1, <2>2, ResolveKeeps
<1>2. CASE respondTool(c) \/ (AnswerWritten(c) /\ ~(chain # <<>> /\ Head(chain) = responses[c]))
  <2>1. /\ UNCHANGED <<phase, turns, known, stream, context, child, toServer, toClient, finished, chain>>
        /\ (slot' = slot /\ doubled' = doubled) \/ doubled'
    BY <1>2 DEF respondTool, AnswerWritten, manager, provider
  <2>2. Fewer(toServer, toServer', Orders) /\ Fewer(toClient, toClient', News)
    BY <2>1, NoMail DEF CodexInv
  <2>3. Session' /\ (Open /\ Quiet => Quiet')
    BY <2>1, <2>2, SessionKept DEF CodexInv, TypeOK
  <2>4. Queue'
    BY <2>1 DEF CodexInv, Queue, Back, Quiet, Out, Open
  <2>5. Closed' /\ OwnCompletion' /\ QuestionIsAsked'
    BY <2>1 DEF CodexInv, Closed, OwnCompletion, QuestionIsAsked
  <2> QED BY <2>3, <2>4, <2>5 DEF CodexInv
<1> QED BY <1>1, <1>2

-----------------------------------------------------------------------------
(* The coordinator. *)

LEMMA SessionFresh ==
  ASSUME Quiet', context'.pending = None, Out({"interrupt"})' = {}, Back(Orders)' = {}
  PROVE  Session'
<1>1. Back({"start"})' = {} /\ Back({"interrupt"})' = {}
  BY DEF Back, Orders
<1>2. Out({"start"})' = {} /\ Back(Ends)' = {} /\ Back({"completed", "plan"})' = {} /\ child'.turn = None
  BY DEF Quiet, Back, Ends
<1>3. OneTurn' /\ Interrupting'
  BY <1>1, <1>2 DEF OneTurn, Interrupting
<1> QED BY <1>3, OverWhenQuiet DEF Session

\* An idle chat has no questions, and nothing of its session is on its way.
LEMMA IdleIsQuiet ==
  ASSUME CodexInv, phase \in {"idle", "ready", "failed"}
  PROVE  /\ chain = <<>>
         /\ Open => context.pending = None /\ Quiet /\ Out({"interrupt"}) = {} /\ Back(Orders) = {}
<1>1. chain = <<>>
  BY DEF CodexInv, Queue
<1>2. SUFFICES ASSUME Open PROVE context.pending = None /\ Quiet /\ Out({"interrupt"}) = {} /\ Back(Orders) = {}
  BY <1>1
<1>3. OneTurn /\ Over /\ Interrupting
  BY <1>2 DEF CodexInv, Session
<1>4. context.pending = None /\ Quiet
  BY <1>3 DEF Over
<1>5. Out({"interrupt"}) = {} /\ Back({"start"}) = {} /\ Back({"interrupt"}) = {}
  BY <1>3 DEF OneTurn, Interrupting
<1> QED BY <1>4, <1>5 DEF Back, Orders

LEMMA NoQuestions ==
  ASSUME CodexInv, chain' = <<>>, \A i \in Back({"ask"})' : toClient'[i].n \in 1..MaxAsks
  PROVE  Queue' /\ QuestionIsAsked'
BY DEF Queue, QuestionIsAsked

LEMMA SameNews ==
  ASSUME CodexInv, toClient' = toClient \/ toClient' = <<>>
  PROVE  \A i \in Back({"ask"})' : toClient'[i].n \in 1..MaxAsks
BY DEF CodexInv, Queue, Back

LEMMA StartSessionKeeps ==
  ASSUME CodexInv, TypeOK', startSession
  PROVE  CodexInv'
<1>1. chain = <<>> /\ (Open => context.pending = None /\ Quiet /\ Out({"interrupt"}) = {} /\ Back(Orders) = {})
  BY IdleIsQuiet DEF startSession
<1>2. UNCHANGED <<tools, known, stream, finished>>
  BY DEF startSession
<1>3. OwnCompletion' /\ Queue' /\ QuestionIsAsked'
  <2>1. toClient' = toClient \/ toClient' = <<>>
    BY DEF startSession
  <2>2. chain' = <<>>
    BY <1>1, <1>2 DEF tools
  <2> QED BY <1>2, <2>1, <2>2, SameNews, NoQuestions DEF OwnCompletion, CodexInv
<1>4. CASE Open /\ UNCHANGED <<context, child, toServer, toClient>>
  <2>1. Quiet' /\ context'.pending = None /\ Out({"interrupt"})' = {} /\ Back(Orders)' = {}
    BY <1>1, <1>4 DEF Quiet, Out, Back
  <2>2. Closed'
    BY <1>4 DEF Closed, CodexInv
  <2> QED BY <1>3, <2>1, <2>2, SessionFresh DEF CodexInv
<1>5. CASE context' = [closed |-> FALSE, pending |-> None] /\ child' = [NoChild EXCEPT !.alive = TRUE]
           /\ toServer' = <<Msg("open", 0)>> /\ toClient' = <<>>
  <2>1. Closed' /\ context'.pending = None /\ child'.turn = None
    BY <1>5 DEF Closed, NoChild
  <2>2. \A i \in DOMAIN toServer' : toServer'[i].kind = "open"
    BY <1>5 DEF Msg
  <2>3. Quiet' /\ Out({"interrupt"})' = {} /\ Back(Orders)' = {}
    BY <1>5, <2>1, <2>2 DEF Quiet, Out, Back
  <2> QED BY <1>3, <2>1, <2>3, SessionFresh DEF CodexInv
<1> QED BY <1>4, <1>5 DEF startSession

LEMMA StartTurnKeeps ==
  ASSUME CodexInv, TypeOK', startTurn
  PROVE  CodexInv'
<1>1. chain = <<>> /\ (Open => context.pending = None /\ Quiet /\ Out({"interrupt"}) = {} /\ Back(Orders) = {})
  BY IdleIsQuiet DEF startTurn
<1>2. UNCHANGED <<tools, known, child, toClient, finished, turns>>
  BY DEF startTurn
<1>3. Queue' /\ QuestionIsAsked'
  <2>1. chain' = <<>>
    BY <1>1, <1>2 DEF tools
  <2> QED BY <1>2, <2>1, SameNews, NoQuestions
<1>4. CASE ~Open
  <2>1. UNCHANGED <<context, stream>>
    BY <1>4 DEF startTurn
  <2> QED BY <1>2, <1>3, <1>4, <2>1 DEF CodexInv, Closed, OwnCompletion, Session, Open
<1>5. CASE Open
  <2>1. /\ context' = [context EXCEPT !.pending = turns] /\ phase' = "starting"
        /\ stream' = [stream EXCEPT ![turns] = "open"] /\ writeMessage(<<Msg("start", turns)>>)
    BY <1>1, <1>5 DEF startTurn
  <2>2. context \in Context /\ turns \in Turns /\ turns \in Nat /\ stream \in [Turns -> Streams]
    BY <1>5, Bounds DEF Open, CodexInv, TypeOK, startTurn
  <2>3. Closed' /\ context'.pending = turns
    BY <1>5, <2>1, <2>2 DEF Closed, Open, Context
  <2>4. OwnCompletion' /\ stream'[turns] = "open"
    BY <1>2, <2>1, <2>2 DEF OwnCompletion, CodexInv
  <2>6. /\ Back(Ends)' = {} /\ Back({"start"})' = {} /\ Back({"interrupt"})' = {} /\ child'.turn = None
        /\ Back(Ends \cup {"start"})' = {} /\ Back({"completed", "plan"})' = {}
    BY <1>1, <1>2, <1>5 DEF Back, Quiet, Orders, Ends
  <2>7. \A i \in DOMAIN toServer' : \/ i \in DOMAIN toServer /\ toServer'[i] = toServer[i]
                                    \/ i = Len(toServer) + 1 /\ toServer'[i] = Msg("start", turns)
    <3>1. toServer \in Seq(Message) /\ Msg("start", turns) \in Message
      BY <2>2, MsgTypes DEF CodexInv, TypeOK, Kinds
    <3>2. CASE toServer' = toServer
      BY <3>2
    <3>3. CASE toServer' = toServer \o <<Msg("start", turns)>>
      BY <3>1, <3>3
    <3> QED BY <2>1, <3>2, <3>3 DEF writeMessage
  <2>8. Out({"start"})' \subseteq {Len(toServer) + 1} /\ Out({"interrupt"})' = {}
    BY <1>1, <1>5, <2>7 DEF Out, Quiet, Msg
  <2>9. \A i \in Out({"start"})' : toServer'[i].n = turns /\ toServer'[i].ok
        /\ (\A j \in Out({"start"})' : i = j)
    BY <1>1, <1>5, <2>7, <2>8 DEF Out, Quiet, Msg
  <2>10. OneTurn'
    BY <1>2, <2>1, <2>6, <2>9 DEF OneTurn
  <2>11. Interrupting'
    BY <2>6, <2>8 DEF Interrupting
  <2>12. Over'
    BY <1>2, <2>1, <2>3, <2>4, Bounds, <2>2 DEF Over
  <2> QED BY <1>3, <2>3, <2>4, <2>10, <2>11, <2>12 DEF CodexInv, Session
<1> QED BY <1>4, <1>5

\* A step of the coordinator that tells the provider nothing, or no order.
LEMMA CoordinatorMoves ==
  ASSUME CodexInv, TypeOK', Register \/ StreamEnds \/ Esc \/ RetryStop \/ steerTurn
  PROVE  CodexInv'
<1>1. UNCHANGED <<context, turns, known, stream, child, toClient, finished, doubled>>
  BY DEF Register, StreamEnds, Esc, RetryStop, steerTurn, manager, tools, provider
<1>2. Fewer(toServer, toServer', Orders)
  <2>1. CASE toServer' = toServer
    BY <2>1, NoMail DEF CodexInv
  <2>2. CASE steerTurn
    <3>1. context.pending \in Nat
      BY <2>2, Bounds DEF steerTurn, Open, CodexInv, TypeOK, Context
    <3>2. Msg("steer", context.pending) \in Message /\ Msg("steer", context.pending).kind \notin Orders
      BY <3>1, MsgTypes DEF Kinds, Orders
    <3> QED BY <2>2, <3>2, OneWrite DEF steerTurn, CodexInv
  <2> QED BY <2>1, <2>2 DEF Register, StreamEnds, Esc, RetryStop, manager, tools, provider
<1>3. \/ phase' = phase
      \/ phase \in {"registering", "running"} /\ phase' \in {"running", "cancelling"}
      \/ phase \notin {"starting", "stopping"} /\ phase' = "idle" /\ (Open => context.pending = None)
  <2>1. CASE StreamEnds
    BY <2>1 DEF StreamEnds, CodexInv, Session, Over
  <2>2. CASE RetryStop
    BY <2>2 DEF RetryStop, CodexInv, Session, Over
  <2> QED BY <2>1, <2>2 DEF Register, Esc, steerTurn
<1>4. Session' /\ (Open /\ Quiet => Quiet')
  BY <1>1, <1>2, <1>3, NoMail, SessionKept DEF CodexInv, TypeOK
<1>5. Closed' /\ OwnCompletion'
  BY <1>1 DEF CodexInv, Closed, OwnCompletion
<1>6. \/ chain' = <<>>
      \/ chain' = chain
         /\ (chain # <<>> => phase \in {"running", "cancelling"} /\ phase' \in {"running", "cancelling"})
  BY DEF Register, StreamEnds, Esc, RetryStop, steerTurn, NoTools, tools, CodexInv, Queue
<1>7. Queue'
  BY <1>1, <1>4, <1>6 DEF CodexInv, Queue, Open, Back
<1>8. QuestionIsAsked'
  <2>1. CASE chain' = <<>> \/ phase' # "running"
    BY <2>1 DEF QuestionIsAsked
  <2>2. CASE chain' = chain /\ chain # <<>> /\ phase' = "running"
    <3>1. phase \in {"running", "cancelling"}
      BY <2>2 DEF CodexInv, Queue
    <3>2. slot' = slot /\ phase = "running"
      BY <2>2, <3>1 DEF Register, StreamEnds, Esc, RetryStop, steerTurn, tools
    <3> QED BY <1>1, <2>2, <3>2 DEF QuestionIsAsked, CodexInv
  <2> QED BY <1>6, <2>1, <2>2
<1> QED BY <1>4, <1>5, <1>7, <1>8 DEF CodexInv

LEMMA CloseKeeps ==
  ASSUME CodexInv, TypeOK', CloseSession
  PROVE  CodexInv'
<1>1. chain = <<>> /\ chain' = chain /\ toClient' = <<>> /\ context' = None /\ UNCHANGED <<stream, finished>>
  BY IdleIsQuiet DEF CloseSession, tools, stopSession
<1>2. Queue' /\ QuestionIsAsked'
  BY <1>1, SameNews, NoQuestions
<1> QED BY <1>1, <1>2 DEF CodexInv, Closed, OwnCompletion, Session, Open

LEMMA InterruptKeeps ==
  ASSUME CodexInv, TypeOK', interrupt
  PROVE  CodexInv'
<1>1. /\ phase = "cancelling" /\ chain' = <<>>
      /\ UNCHANGED <<known, doubled, child, toClient, finished, turns>>
  BY DEF interrupt, NoTools
<1>2. Queue' /\ QuestionIsAsked'
  BY <1>1, SameNews, NoQuestions
<1>3. Fewer(toClient, toClient', News)
  BY <1>1, NoMail DEF CodexInv
<1>4. CASE Pending = None
  <2>1. phase' = "idle" /\ UNCHANGED <<context, stream, toServer>>
    BY <1>4 DEF interrupt
  <2>2. Open => context.pending = None
    BY <1>4 DEF Open, Pending
  <2>3. Session'
    BY <1>1, <1>3, <2>1, <2>2, NoMail, SessionKept DEF CodexInv, TypeOK
  <2> QED BY <1>1, <1>2, <2>1, <2>3 DEF CodexInv, Closed, OwnCompletion
<1>5. CASE Pending # None
  <2>1. Open /\ context \in Context /\ context.pending = turns /\ Pending = turns /\ turns \in Turns
        /\ turns \in Nat
    BY <1>5, PendingIsLast, Bounds DEF CodexInv
  <2>2. context' = [context EXCEPT !.pending = None] /\ stream' = [stream EXCEPT ![turns] = "cut"]
    BY <1>5, <2>1 DEF interrupt
  <2>3. context'.pending = None /\ Closed'
    BY <2>1, <2>2 DEF Context, Closed
  <2>4. OwnCompletion'
    BY <1>1, <2>1, <2>2 DEF OwnCompletion, CodexInv, TypeOK
  <2>5. OneTurn /\ Over /\ Interrupting
    BY <2>1 DEF CodexInv, Session
  <2>6. CASE turns \notin known
    <3>1. phase' = "idle" /\ toServer' = toServer
      BY <1>5, <2>1, <2>6 DEF interrupt
    <3>2. Quiet
      BY <1>1, <2>5, <2>6 DEF Over
    <3>3. Session'
      BY <1>1, <1>3, <2>1, <2>3, <3>1, <3>2, NoMail, SessionSettled DEF CodexInv, TypeOK
    <3> QED BY <1>2, <2>3, <2>4, <3>3 DEF CodexInv
  <2>7. CASE turns \in known
    <3>1. phase' = "stopping" /\ writeMessage(<<Msg("interrupt", turns)>>)
      BY <1>5, <2>1, <2>7 DEF interrupt
    <3>2. /\ Out({"start"}) = {} /\ Out({"interrupt"}) = {}
          /\ Back({"start"}) = {} /\ Back({"interrupt"}) = {}
      BY <1>1, <2>5 DEF OneTurn, Interrupting
    <3>3. \A i \in DOMAIN toServer' : \/ i \in DOMAIN toServer /\ toServer'[i] = toServer[i]
                                      \/ i = Len(toServer) + 1 /\ toServer'[i] = Msg("interrupt", turns)
      <4>1. toServer \in Seq(Message) /\ Msg("interrupt", turns) \in Message
        BY <2>1, MsgTypes DEF CodexInv, TypeOK, Kinds
      <4>2. CASE toServer' = toServer
        BY <4>2
      <4>3. CASE toServer' = toServer \o <<Msg("interrupt", turns)>>
        BY <4>1, <4>3
      <4> QED BY <3>1, <4>2, <4>3 DEF writeMessage
    <3>4. Out({"interrupt"})' \subseteq {Len(toServer) + 1} /\ Out({"start"})' = {}
      BY <3>2, <3>3 DEF Out, Msg
    <3>5. \A i \in Out({"interrupt"})' : toServer'[i].n = turns /\ (\A j \in Out({"interrupt"})' : i = j)
      BY <3>2, <3>3, <3>4 DEF Out, Msg
    <3>6. /\ Back({"start"})' = {} /\ Back({"interrupt"})' = {} /\ Back(Ends)' = Back(Ends)
          /\ Back({"completed", "plan"})' = Back({"completed", "plan"})
      BY <1>1, <3>2 DEF Back
    <3>7. OneTurn'
      BY <1>1, <2>5, <3>4, <3>6 DEF OneTurn
    <3>8. Interrupting'
      BY <1>1, <3>1, <3>5, <3>6 DEF Interrupting
    <3>9. Over'
      BY <2>3, <3>1 DEF Over
    <3> QED BY <1>2, <2>3, <2>4, <3>7, <3>8, <3>9 DEF CodexInv, Session
  <2> QED BY <2>6, <2>7
<1> QED BY <1>4, <1>5

LEMMA DiscardKeeps ==
  ASSUME CodexInv, TypeOK', Discard
  PROVE  CodexInv'
<1>1. /\ chain # <<>> /\ Resolve /\ PlanResolved /\ phase \in {"running", "cancelling"}
      /\ UNCHANGED <<phase, turns, known, child, toClient, finished, doubled>>
  BY DEF Discard
<1> QED BY <1>1, ResolveKeeps

-----------------------------------------------------------------------------
(* The provider. *)

\* A message to the manager comes after all others.
LEMMA SayOne ==
  ASSUME TypeOK, NEW m \in Message, Say(<<m>>)
  PROVE  /\ m.kind \notin News => Fewer(toClient, toClient', News)
         /\ \A i \in DOMAIN toClient' : \/ i \in DOMAIN toClient /\ i < Len(toClient) + 1 /\ toClient'[i] = toClient[i]
                                        \/ i = Len(toClient) + 1 /\ toClient'[i] = m
<1>1. toClient \in Seq(Message) /\ toClient' = toClient \o <<m>>
  BY DEF TypeOK, Say
<1>2. <<m>> \in Seq(Message) /\ \A i \in DOMAIN <<m>> : <<m>>[i] = m
  BY OneMessage
<1>3. m.kind \notin News => Fewer(toClient, toClient \o <<m>>, News)
  BY <1>1, <1>2, SendsOthers
<1>4. \A i \in DOMAIN (toClient \o <<m>>) :
        \/ i \in DOMAIN toClient /\ i < Len(toClient) + 1 /\ (toClient \o <<m>>)[i] = toClient[i]
        \/ i = Len(toClient) + 1 /\ (toClient \o <<m>>)[i] = m
  BY <1>1
<1> QED BY <1>1, <1>3, <1>4

Framed == UNCHANGED <<manager, chain, slot, doubled, phase, turns>>

\* What no action of the provider touches; the rest is its effect on the session.
LEMMA FrameKeeps ==
  ASSUME CodexInv, TypeOK', Framed, finished \subseteq finished', Session', Open /\ Quiet => Quiet',
         \A i \in Back({"ask"})' : toClient'[i].n \in 1..MaxAsks
  PROVE  CodexInv'
<1>1. UNCHANGED <<context, known, stream, chain, slot, doubled, phase, turns>>
  BY DEF Framed, manager
<1>2. Closed' /\ OwnCompletion' /\ QuestionIsAsked'
  BY <1>1 DEF CodexInv, Closed, OwnCompletion, QuestionIsAsked
<1>3. Queue'
  BY <1>1 DEF CodexInv, Queue, Open
<1> QED BY <1>2, <1>3 DEF CodexInv

LEMMA Unfollowed ==
  ASSUME CodexInv, TypeOK', Framed, finished \subseteq finished', child'.turn \in {child.turn, None},
         Fewer(toServer, toServer', Orders), Fewer(toClient, toClient', News)
  PROVE  Session' /\ (Open /\ Quiet => Quiet')
BY SessionKept DEF CodexInv, Framed, manager

\* The provider takes up the turn, or refuses it.
LEMMA ServeStart ==
  ASSUME CodexInv, TypeOK', Framed, finished' = finished, Open, toServer # <<>>, toServer' = Tail(toServer),
         NEW m \in Message, Say(<<m>>), m.kind = "start", Head(toServer).kind = "start",
         \/ child'.turn = turns /\ m.ok
         \/ child'.turn = child.turn
  PROVE  OneTurn' /\ Over' /\ Interrupting' /\ ~Quiet
<1>1. OneTurn /\ Over /\ Interrupting /\ TypeOK
  BY DEF CodexInv, Session
<1>2. 1 \in Out({"start"})
  <2>1. toServer \in Seq(Message)
    BY <1>1 DEF TypeOK
  <2> QED BY <2>1, CodexReading DEF Out
<1>3. /\ phase = "starting" /\ Back(Ends \cup {"start"}) = {} /\ child.turn = None /\ ~Quiet
      /\ \A i \in Out({"start"}) : i = 1
  BY <1>1, <1>2 DEF OneTurn, Quiet
<1>4. Out({"start"})' = {} /\ Out({"interrupt"})' = {}
  <2>1. ASSUME NEW i \in DOMAIN toServer' PROVE i + 1 \in DOMAIN toServer /\ toServer'[i] = toServer[i + 1]
               /\ i + 1 # 1
    BY <2>1, <1>1, CodexReading DEF TypeOK
  <2> QED BY <1>1, <1>3, <2>1 DEF Out, Interrupting
<1>5. \A i \in DOMAIN toClient' : \/ i \in DOMAIN toClient /\ toClient'[i] = toClient[i]
                                  \/ i = Len(toClient) + 1 /\ toClient'[i] = m
  BY <1>1, SayOne
<1>6. /\ Back(Ends)' = {} /\ Back({"completed", "plan"})' = {} /\ Back({"interrupt"})' = {}
      /\ \A i \in Back({"start"})' : i = Len(toClient) + 1 /\ toClient'[i] = m
  BY <1>1, <1>3, <1>5 DEF Back, Ends, Interrupting
<1>7. phase' = "starting" /\ turns' = turns /\ UNCHANGED <<context, stream, known>>
  BY <1>3 DEF Framed, manager
<1>8. ~m.ok => Quiet'
  BY <1>3, <1>4, <1>6 DEF Quiet
<1>9. OneTurn'
  BY <1>3, <1>4, <1>6, <1>7, <1>8 DEF OneTurn
<1>10. Interrupting'
  BY <1>4, <1>6 DEF Interrupting
<1>11. Over'
  <2>1. context.pending # None
    BY <1>1, <1>3 DEF Over
  <2> QED BY <1>1, <1>7, <2>1 DEF Over
<1> QED BY <1>3, <1>9, <1>10, <1>11

\* The reply to an interrupt comes after the end of the turn, and ends it if it had not.
LEMMA ServeInterrupt ==
  ASSUME CodexInv, TypeOK', Framed, finished' = finished, Open, toServer # <<>>, toServer' = Tail(toServer),
         Head(toServer).kind = "interrupt", NEW m \in Message, m.kind = "interrupt",
         \/ /\ child.turn # None /\ child'.turn = None
            /\ toClient' = toClient \o <<Msg("interrupted", Head(toServer).n), m>>
         \/ /\ ~(child.turn # None /\ child.turn = Head(toServer).n) /\ child' = child /\ Say(<<m>>)
  PROVE  OneTurn' /\ Over' /\ Interrupting' /\ (Quiet => Quiet')
<1>1. OneTurn /\ Over /\ Interrupting /\ TypeOK
  BY DEF CodexInv, Session
<1>2. 1 \in Out({"interrupt"}) /\ Head(toServer) = toServer[1] /\ Head(toServer).n \in Nat
  <2>1. toServer \in Seq(Message)
    BY <1>1 DEF TypeOK
  <2>2. Head(toServer) \in Message
    BY <2>1, CodexReading
  <2> QED BY <2>1, <2>2, CodexReading DEF Out, Message
<1>3. /\ phase = "stopping" /\ Head(toServer).n = turns /\ Back({"interrupt"}) = {}
      /\ \A i \in Out({"interrupt"}) : i = 1
  BY <1>1, <1>2 DEF Interrupting
<1>4. Out({"start"}) = {} /\ Back({"start"}) = {}
  BY <1>1, <1>3 DEF OneTurn
<1>5. Out({"start"})' = {} /\ Out({"interrupt"})' = {}
  <2>1. ASSUME NEW i \in DOMAIN toServer' PROVE i + 1 \in DOMAIN toServer /\ toServer'[i] = toServer[i + 1]
               /\ i + 1 # 1
    BY <2>1, <1>1, CodexReading DEF TypeOK
  <2> QED BY <1>3, <1>4, <2>1 DEF Out
<1>6. phase' = "stopping" /\ turns' = turns /\ UNCHANGED <<context, stream, known>>
  BY <1>3 DEF Framed, manager
<1>7. Over' /\ child'.turn = None
  <2>1. child'.turn = None
    BY <1>1, <1>3 DEF OneTurn
  <2> QED BY <1>1, <1>3, <1>6, <2>1 DEF Over
<1>8. Len(toClient) \in Nat /\ DOMAIN toClient = 1..Len(toClient)
  BY <1>1 DEF TypeOK
<1>9. CASE child' = child /\ Say(<<m>>)
  <2>1. \A i \in DOMAIN toClient' : \/ i \in DOMAIN toClient /\ i < Len(toClient) + 1 /\ toClient'[i] = toClient[i]
                                    \/ i = Len(toClient) + 1 /\ toClient'[i] = m
    BY <1>1, <1>9, SayOne
  <2>2. /\ \A i \in Back(Ends)' : i \in Back(Ends) /\ i < Len(toClient) + 1
        /\ \A i \in Back({"completed", "plan"})' : i \in Back({"completed", "plan"})
           /\ toClient'[i] = toClient[i]
        /\ Back({"start"})' = {}
        /\ \A i \in Back({"interrupt"})' : i = Len(toClient) + 1
    BY <1>3, <1>4, <2>1 DEF Back, Ends
  <2>3. OneTurn'
    BY <1>1, <1>5, <1>6, <1>7, <2>2 DEF OneTurn
  <2>4. Interrupting'
    BY <1>5, <1>6, <1>7, <2>2 DEF Interrupting
  <2>5. Quiet => Quiet'
    BY <1>5, <1>7, <2>2 DEF Quiet
  <2> QED BY <1>7, <2>3, <2>4, <2>5
<1>10. CASE child.turn # None /\ toClient' = toClient \o <<Msg("interrupted", Head(toServer).n), m>>
  <2> DEFINE e == Msg("interrupted", Head(toServer).n)
  <2>1. e \in Message /\ e.kind = "interrupted"
    BY <1>2, MsgTypes DEF Kinds
  <2> HIDE DEF e
  <2>2. \A i \in DOMAIN toClient' : \/ i \in DOMAIN toClient /\ toClient'[i] = toClient[i]
                                    \/ i = Len(toClient) + 1 /\ toClient'[i] = e
                                    \/ i = Len(toClient) + 2 /\ toClient'[i] = m
    <3>1. toClient \in Seq(Message) /\ toClient' = toClient \o <<e, m>>
      BY <1>1, <1>10 DEF TypeOK, e
    <3> QED BY <2>1, <3>1
  <2>3. Back(Ends) = {} /\ ~Quiet
    BY <1>1, <1>10 DEF OneTurn, Quiet
  <2>4. /\ \A i \in Back(Ends)' : i = Len(toClient) + 1
        /\ Back({"completed", "plan"})' = {} /\ Back({"start"})' = {}
        /\ \A i \in Back({"interrupt"})' : i = Len(toClient) + 2
    BY <1>3, <1>4, <2>1, <2>2, <2>3 DEF Back, Ends
  <2>5. OneTurn'
    BY <1>5, <1>7, <2>4 DEF OneTurn
  <2>6. Interrupting'
    BY <1>5, <1>6, <1>7, <1>8, <2>4 DEF Interrupting
  <2> QED BY <1>7, <2>3, <2>5, <2>6
<1> QED BY <1>9, <1>10

\* A turn ends by itself, for good or not.
LEMMA EndKeeps ==
  ASSUME CodexInv, TypeOK', Framed, Open, child.turn # None, child'.turn = None, toServer' = toServer,
         NEW m \in Message, Say(<<m>>), m.kind \in {"completed", "plan", "error"}, m.n = child.turn,
         finished' = finished \/ finished' = finished \cup {child.turn},
         m.kind # "error" => child.turn \in finished'
  PROVE  OneTurn' /\ Over' /\ Interrupting' /\ ~Quiet
<1>1. OneTurn /\ Over /\ Interrupting /\ TypeOK
  BY DEF CodexInv, Session
<1>2. child.turn = turns /\ Out({"start"}) = {} /\ Back(Ends) = {} /\ ~Quiet /\ Back({"interrupt"}) = {}
  BY <1>1 DEF OneTurn, Quiet, Interrupting
<1>3. \A i \in DOMAIN toClient' : \/ i \in DOMAIN toClient /\ toClient'[i] = toClient[i]
                                  \/ i = Len(toClient) + 1 /\ toClient'[i] = m
  BY <1>1, SayOne
<1>4. /\ \A i \in Back(Ends)' : i = Len(toClient) + 1 /\ toClient'[i] = m
      /\ Back({"completed", "plan"})' \subseteq Back(Ends)'
      /\ \A i \in Back({"completed", "plan"})' : m.kind # "error"
      /\ \A i \in Back({"start"})' : i \in Back({"start"}) /\ toClient'[i] = toClient[i]
      /\ Back({"interrupt"})' = {}
  BY <1>2, <1>3 DEF Back, Ends
<1>5. UNCHANGED <<phase, turns, context, stream, known>> /\ Out({"start"})' = {}
      /\ Out({"interrupt"})' = Out({"interrupt"})
  BY <1>2 DEF Framed, manager, Out
<1>6. OneTurn'
  <2>1. \A i \in Back({"start"})' : phase' = "starting" /\ toClient'[i].ok
        /\ (\A j \in Back({"start"})' : i = j)
    BY <1>1, <1>2, <1>4, <1>5 DEF OneTurn
  <2>2. \A i \in Back({"completed", "plan"})' : toClient'[i].n = turns' /\ turns' \in finished'
    BY <1>2, <1>4, <1>5
  <2> QED BY <1>4, <1>5, <2>1, <2>2 DEF OneTurn
<1>7. Interrupting'
  BY <1>1, <1>4, <1>5 DEF Interrupting
<1>8. Over'
  BY <1>1, <1>2, <1>5 DEF Over
<1> QED BY <1>2, <1>6, <1>7, <1>8

\* Messages that are no questions leave the questions on their way as they are.
LEMMA SameQuestions ==
  ASSUME CodexInv, \A i \in DOMAIN toClient' : \/ i \in DOMAIN toClient /\ toClient'[i] = toClient[i]
                                          \/ toClient'[i].kind # "ask"
  PROVE  \A i \in Back({"ask"})' : toClient'[i].n \in 1..MaxAsks
BY DEF CodexInv, Queue, Back

LEMMA ServeKeeps ==
  ASSUME CodexInv, TypeOK', Serve
  PROVE  CodexInv'
<1> DEFINE m == Head(toServer)
           no == [m EXCEPT !.ok = FALSE]
           e == Msg("interrupted", m.n)
           active == child.turn # None /\ child.turn = m.n
<1>1. TypeOK /\ toServer \in Seq(Message) /\ toClient \in Seq(Message) /\ child \in Child
  BY DEF CodexInv, TypeOK
<1>2. toServer # <<>> /\ toServer' = Tail(toServer) /\ Framed /\ finished' = finished
  BY DEF Serve, Framed, tools
<1>3. m \in Message /\ m.kind \in Kinds /\ m.n \in Nat
  <2>1. m \in Message
    BY <1>1, <1>2, CodexReading
  <2> QED BY <2>1 DEF Message
<1>4. no \in Message /\ no.kind = m.kind
  BY <1>3 DEF Message
<1>5. e \in Message /\ e.kind = "interrupted"
  BY <1>3, MsgTypes DEF Kinds
<1>6. \/ /\ m.kind \in {"open", "start"}
         /\ \/ child' = (IF m.kind = "start" THEN [child EXCEPT !.turn = m.n] ELSE child) /\ Say(<<m>>)
            \/ child' = child /\ Say(<<no>>)
      \/ m.kind = "interrupt" /\ active /\ child' = [child EXCEPT !.turn = None, !.asked = {}] /\ Say(<<e, m>>)
      \/ m.kind = "interrupt" /\ ~active /\ child' = child /\ Say(<<no>>)
      \/ m.kind = "steer" /\ child' = child /\ (Say(<<m>>) \/ Say(<<no>>))
      \/ m.kind = "answer" /\ child' = [child EXCEPT !.asked = child.asked \ {m.n}] /\ toClient' = toClient
  BY DEF Serve
<1> HIDE DEF m, no, e
<1>7. \A i \in Back({"ask"})' : toClient'[i].n \in 1..MaxAsks
  <2>1. CASE Say(<<m>>) /\ m.kind # "ask"
    BY <1>1, <1>3, <2>1, SayOne, SameQuestions
  <2>2. CASE Say(<<no>>) /\ m.kind # "ask"
    BY <1>1, <1>4, <2>2, SayOne, SameQuestions
  <2>3. CASE Say(<<e, m>>) /\ m.kind # "ask"
    <3>1. \A i \in DOMAIN toClient' : \/ i \in DOMAIN toClient /\ toClient'[i] = toClient[i]
                                      \/ toClient'[i].kind # "ask"
      BY <1>1, <1>3, <1>5, <2>3 DEF Say
    <3> QED BY <3>1, SameQuestions
  <2>4. CASE toClient' = toClient
    BY <2>4, SameNews
  <2> QED BY <1>6, <2>1, <2>2, <2>3, <2>4
<1>8. Session' /\ (Open /\ Quiet => Quiet')
  <2>1. CASE ~Open
    BY <1>2, <2>1 DEF Session, Open, Framed, manager
  <2>2. CASE Open /\ m.kind \in {"open", "steer", "answer"}
    <3>1. child'.turn = child.turn /\ m.kind \notin News /\ (Say(<<m>>) \/ Say(<<no>>) \/ toClient' = toClient)
      BY <1>1, <1>6, <2>2 DEF News, Ends, Orders, Child
    <3>2. Fewer(toClient, toClient', News)
      <4>1. CASE Say(<<m>>)
        BY <1>1, <1>3, <3>1, <4>1, SayOne
      <4>2. CASE Say(<<no>>)
        BY <1>1, <1>4, <3>1, <4>2, SayOne
      <4> QED BY <1>1, <3>1, <4>1, <4>2, NoMail
    <3>3. Fewer(toServer, toServer', Orders)
      BY <1>1, <1>2, ReadsOne
    <3> QED BY <1>2, <3>1, <3>2, <3>3, Unfollowed
  <2>3. CASE Open /\ m.kind = "start"
    <3>1. m.n = turns /\ m.ok /\ OneTurn
      <4>1. 1 \in Out({"start"}) /\ m = toServer[1]
        BY <1>1, <1>2, <2>3, CodexReading DEF Out, m
      <4> QED BY <2>3, <4>1 DEF OneTurn, CodexInv, Session
    <3>2. CASE Say(<<m>>) /\ child' = [child EXCEPT !.turn = m.n]
      <4>1. child'.turn = turns
        BY <1>1, <3>1, <3>2 DEF Child
      <4>2. OneTurn' /\ Over' /\ Interrupting' /\ ~Quiet
        BY <1>2, <1>3, <2>3, <3>1, <3>2, <4>1, ServeStart DEF m
      <4> QED BY <4>2 DEF Session
    <3>3. CASE Say(<<no>>) /\ child' = child
      <4>1. OneTurn' /\ Over' /\ Interrupting' /\ ~Quiet
        BY <1>2, <1>4, <2>3, <3>3, ServeStart DEF m
      <4> QED BY <4>1 DEF Session
    <3> QED BY <1>6, <2>3, <3>2, <3>3
  <2>4. CASE Open /\ m.kind = "interrupt"
    <3>1. OneTurn' /\ Over' /\ Interrupting' /\ (Quiet => Quiet')
      <4>1. CASE active /\ child' = [child EXCEPT !.turn = None, !.asked = {}] /\ Say(<<e, m>>)
        <5>1. child.turn # None /\ child'.turn = None
          BY <1>1, <4>1 DEF Child
        <5>2. toClient' = toClient \o <<Msg("interrupted", Head(toServer).n), m>>
          BY <4>1 DEF Say, e, m
        <5> QED BY <1>2, <1>3, <2>4, <5>1, <5>2, ServeInterrupt DEF m
      <4>2. CASE ~active /\ child' = child /\ Say(<<no>>)
        BY <1>2, <1>4, <2>4, <4>2, ServeInterrupt DEF m
      <4> QED BY <1>6, <2>4, <4>1, <4>2
    <3> QED BY <3>1 DEF Session
  <2> QED BY <1>6, <2>1, <2>2, <2>3, <2>4
<1> QED BY <1>2, <1>7, <1>8, FrameKeeps

LEMMA ProviderKeeps ==
  ASSUME CodexInv, TypeOK', Asks \/ Completes \/ Errs \/ Dies
  PROVE  CodexInv'
<1>1. TypeOK /\ toClient \in Seq(Message) /\ child \in Child /\ asks \in 0..MaxAsks
  BY DEF CodexInv, TypeOK
<1>2. Framed /\ finished \subseteq finished'
  BY DEF Asks, Completes, Errs, Dies, Framed, tools
<1>3. CASE Asks
  <2>1. asks + 1 \in 1..MaxAsks /\ asks + 1 \in Nat
    BY <1>1, <1>3, Bounds DEF Asks
  <2>2. Msg("ask", asks + 1) \in Message /\ Msg("ask", asks + 1).kind = "ask"
        /\ Msg("ask", asks + 1).n = asks + 1
    BY <2>1, MsgTypes DEF Kinds
  <2>3. child'.turn = child.turn /\ toServer' = toServer /\ Say(<<Msg("ask", asks + 1)>>)
    BY <1>1, <1>3 DEF Asks, Child
  <2>4. Fewer(toClient, toClient', News) /\ Fewer(toServer, toServer', Orders)
    <3>1. Msg("ask", asks + 1).kind \notin News
      BY <2>2 DEF News, Ends, Orders
    <3> QED BY <1>1, <2>2, <2>3, <3>1, SayOne, NoMail
  <2>5. Session' /\ (Open /\ Quiet => Quiet')
    BY <1>2, <2>3, <2>4, Unfollowed
  <2>6. \A i \in DOMAIN toClient' : \/ i \in DOMAIN toClient /\ toClient'[i] = toClient[i]
                                    \/ toClient'[i].n = asks + 1
    BY <1>1, <2>2, <2>3, SayOne
  <2>7. \A i \in Back({"ask"})' : toClient'[i].n \in 1..MaxAsks
    BY <2>1, <2>6 DEF Back, CodexInv, Queue
  <2> QED BY <1>2, <2>5, <2>7, FrameKeeps
<1>4. CASE Dies
  <2>1. child'.turn = None /\ toServer' = <<>> /\ toClient' = toClient
    BY <1>4 DEF Dies, NoChild
  <2>2. Session' /\ (Open /\ Quiet => Quiet')
    BY <1>1, <1>2, <2>1, NoMail, Unfollowed
  <2> QED BY <1>2, <2>1, <2>2, SameNews, FrameKeeps
<1>5. CASE Completes \/ Errs
  <2>1. PICK kind \in {"completed", "plan", "error"} :
          /\ Say(<<Msg(kind, child.turn)>>)
          /\ kind # "error" => child.turn \in finished'
    BY <1>5 DEF Completes, Errs
  <2>2. /\ child.turn # None /\ child'.turn = None /\ toServer' = toServer
        /\ finished' = finished \/ finished' = finished \cup {child.turn}
    BY <1>1, <1>5 DEF Completes, Errs, Child
  <2>3. child.turn \in Nat
    BY <1>1, <2>2 DEF Child
  <2> DEFINE m == Msg(kind, child.turn)
  <2>4. m \in Message /\ m.kind = kind /\ m.n = child.turn
    BY <2>3, MsgTypes DEF Kinds
  <2> HIDE DEF m
  <2>5. Say(<<m>>)
    BY <2>1 DEF m
  <2>6. \A i \in Back({"ask"})' : toClient'[i].n \in 1..MaxAsks
    BY <1>1, <2>4, <2>5, SayOne, SameQuestions
  <2>7. Session' /\ (Open /\ Quiet => Quiet')
    <3>1. CASE ~Open
      BY <1>2, <3>1 DEF Session, Open, Framed, manager
    <3>2. CASE Open
      <4>1. OneTurn' /\ Over' /\ Interrupting' /\ ~Quiet
        BY <1>2, <2>1, <2>2, <2>4, <2>5, <3>2, EndKeeps
      <4> QED BY <4>1 DEF Session
    <3> QED BY <3>1, <3>2
  <2> QED BY <1>2, <2>6, <2>7, FrameKeeps
<1> QED BY <1>3, <1>4, <1>5

-----------------------------------------------------------------------------
(* The manager reads. *)

LEMMA Asked ==
  ASSUME CodexInv, NEW a \in Nat, onToolRequest(a), UNCHANGED <<phase, turns, finished, doubled>>,
         Open' => Open, Open /\ Quiet => Quiet', a = Plan => turns \in finished /\ (Open => Quiet'),
         \A i \in Back({"ask"})' : toClient'[i].n \in 1..MaxAsks
  PROVE  Queue' /\ QuestionIsAsked'
<1>1. TypeOK /\ Queue /\ QuestionIsAsked /\ chain \in Seq(Nat)
  BY DEF CodexInv, TypeOK
<1>2. \/ chain' = chain /\ slot' = slot
      \/ chain' = Append(chain, a)
         /\ ((chain # <<>> /\ slot' = slot) \/ (phase = "running" /\ slot' = a /\ chain = <<>>))
  BY <1>1, ToolRequest
<1>3. CASE chain' = chain /\ slot' = slot
  BY <1>1, <1>3 DEF Queue, QuestionIsAsked
<1>4. CASE chain' = Append(chain, a)
           /\ ((chain # <<>> /\ slot' = slot) \/ (phase = "running" /\ slot' = a /\ chain = <<>>))
  <2>1. \A i \in DOMAIN chain' : (i \in DOMAIN chain /\ chain'[i] = chain[i]) \/ chain'[i] = a
    BY <1>1, <1>4
  <2>2. phase' \in {"running", "cancelling"}
    BY <1>1, <1>4 DEF Queue
  <2>3. ASSUME NEW i \in DOMAIN chain', chain'[i] = Plan PROVE turns' \in finished' /\ (Open' => Quiet')
    <3>1. CASE chain'[i] = a
      BY <2>3, <3>1
    <3>2. CASE i \in DOMAIN chain /\ chain'[i] = chain[i]
      BY <1>1, <2>3, <3>2 DEF Queue
    <3> QED BY <2>1, <3>1, <3>2
  <2>4. Queue'
    BY <2>2, <2>3 DEF Queue
  <2>5. IF chain = <<>> THEN Head(chain') = a ELSE Head(chain') = Head(chain)
    BY <1>1, <1>4
  <2>6. QuestionIsAsked'
    BY <1>1, <1>4, <2>5 DEF QuestionIsAsked
  <2> QED BY <2>4, <2>6
<1> QED BY <1>2, <1>3, <1>4

\* The lost session, or process, takes its turn with it.
LEMMA FailKeeps ==
  ASSUME CodexInv, TypeOK', context # None, failContext, UNCHANGED <<turns, finished, doubled, chain, slot>>,
         \A i \in Back({"ask"})' : toClient'[i].n \in 1..MaxAsks
  PROVE  CodexInv'
<1>1. context \in Context
  BY DEF CodexInv, TypeOK
<1>2. ~Open' /\ Closed'
  BY <1>1 DEF failContext, Open, Closed, Context
<1>3. OwnCompletion'
  BY DEF failContext, OwnCompletion, CodexInv, TypeOK
<1>4. Queue' /\ QuestionIsAsked'
  <2>1. chain # <<>> => phase' = phase
    BY DEF CodexInv, Queue, failContext
  <2> QED BY <1>2, <2>1 DEF CodexInv, Queue, QuestionIsAsked
<1> QED BY <1>2, <1>3, <1>4 DEF CodexInv, Session

\* What the manager reads comes off its pipe.
Reads(m) ==
  /\ context # None /\ toClient # <<>> /\ m = Head(toClient) /\ toClient' = Tail(toClient)
  /\ UNCHANGED <<turns, finished, doubled>>

LEMMA ReadMail ==
  ASSUME CodexInv, NEW m, Reads(m)
  PROVE  /\ m \in Message /\ m = toClient[1] /\ 1 \in DOMAIN toClient
         /\ Fewer(toClient, toClient', News)
         /\ \A kinds : \A i \in Back(kinds)' : i + 1 \in Back(kinds) /\ i + 1 # 1
            /\ toClient'[i] = toClient[i + 1]
         /\ \A i \in Back({"ask"})' : toClient'[i].n \in 1..MaxAsks
<1>1. toClient \in Seq(Message)
  BY DEF CodexInv, TypeOK
<1>2. m \in Message /\ m = toClient[1] /\ 1 \in DOMAIN toClient /\ Fewer(toClient, toClient', News)
  BY <1>1, CodexReading, ReadsOne DEF Reads
<1>3. \A i \in DOMAIN toClient' : i + 1 \in DOMAIN toClient /\ i + 1 # 1 /\ toClient'[i] = toClient[i + 1]
  BY <1>1, CodexReading DEF Reads
<1>4. \A kinds : \A i \in Back(kinds)' : i + 1 \in Back(kinds) /\ i + 1 # 1 /\ toClient'[i] = toClient[i + 1]
  BY <1>3 DEF Back
<1>5. \A i \in Back({"ask"})' : toClient'[i].n \in 1..MaxAsks
  BY <1>4 DEF CodexInv, Queue
<1> QED BY <1>2, <1>4, <1>5

\* The end of a turn is the end of the last one, and nothing of it is left.
LEMMA ReadEnd ==
  ASSUME CodexInv, Open, NEW m, Reads(m), m.kind \in Ends, child' = child,
         toServer' \in Seq(Message), Fewer(toServer, toServer', Orders)
  PROVE  Quiet' /\ (m.kind \in {"completed", "plan"} => turns \in finished)
<1>1. OneTurn
  BY DEF CodexInv, Session
<1>2. 1 \in Back(Ends) /\ m = toClient[1]
  BY ReadMail DEF Back
<1>3. child.turn = None /\ Out({"start"}) = {}
  <2>1. Back(Ends \cup {"start"}) # {}
    BY <1>2 DEF Back
  <2> QED BY <1>1, <1>2, <2>1 DEF OneTurn
<1>4. Back(Ends)' = {}
  <2> SUFFICES ASSUME NEW i \in Back(Ends)' PROVE FALSE
    OBVIOUS
  <2>1. i + 1 \in Back(Ends) /\ i + 1 # 1
    BY ReadMail
  <2> QED BY <1>1, <1>2, <2>1 DEF OneTurn
<1>5. Out({"start"})' = {}
  BY <1>3 DEF Fewer, Out, Orders
<1>6. m.kind \in {"completed", "plan"} => turns \in finished
  BY <1>1, <1>2 DEF OneTurn, Back
<1> QED BY <1>3, <1>4, <1>5, <1>6 DEF Quiet

LEMMA ReadReply ==
  ASSUME CodexInv, TypeOK', NEW m, Reads(m), handleResponse(m), UNCHANGED <<chain, slot>>
  PROVE  CodexInv'
<1>1. TypeOK /\ Session /\ Closed
  BY DEF CodexInv
<1>2. /\ m = toClient[1] /\ 1 \in DOMAIN toClient
      /\ Fewer(toClient, toClient', News)
      /\ \A kinds : \A i \in Back(kinds)' : i + 1 \in Back(kinds) /\ i + 1 # 1
      /\ \A i \in Back({"ask"})' : toClient'[i].n \in 1..MaxAsks
  BY ReadMail
<1>3. UNCHANGED <<turns, finished, doubled>>
  BY DEF Reads
<1>4. CASE m.kind = "steer"
  <2>1. UNCHANGED <<context, known, stream, child, toServer, phase>>
    BY <1>4 DEF handleResponse
  <2>2. Session' /\ (Open /\ Quiet => Quiet')
    BY <1>1, <1>2, <1>3, <2>1, NoMail, SessionKept DEF TypeOK
  <2>3. Queue' /\ QuestionIsAsked' /\ Closed' /\ OwnCompletion'
    BY <1>2, <1>3, <2>1, <2>2 DEF CodexInv, Queue, QuestionIsAsked, Closed, OwnCompletion, Open
  <2> QED BY <2>2, <2>3 DEF CodexInv
<1>5. CASE m.kind # "steer"
  <2>1. phase \in {"opening", "starting", "stopping"}
    BY <1>5 DEF handleResponse
  <2>2. Queue' /\ QuestionIsAsked'
    <3>1. chain' = <<>>
      BY <2>1 DEF CodexInv, Queue
    <3> QED BY <1>2, <3>1, NoQuestions
  <2>3. CASE m.kind = "open" /\ phase = "opening"
    <3>1. CASE m.ok
      <4>1. phase' = "ready" /\ UNCHANGED <<context, known, stream, child, toServer>>
        BY <2>3, <3>1 DEF handleResponse
      <4>2. Open => Quiet /\ context.pending = None
        BY <1>1, <2>3 DEF Session, Over
      <4>3. Session'
        BY <1>1, <1>2, <1>3, <2>3, <4>1, <4>2, NoMail, SessionSettled DEF TypeOK, Open
      <4> QED BY <1>3, <2>2, <4>1, <4>3 DEF CodexInv, Closed, OwnCompletion
    <3>2. CASE ~m.ok
      <4>1. context' = None /\ stream' = stream
        BY <2>3, <3>2 DEF handleResponse
      <4> QED BY <1>3, <2>2, <4>1 DEF CodexInv, Closed, OwnCompletion, Session, Open
    <3> QED BY <3>1, <3>2
  <2>4. CASE m.kind = "start" /\ phase = "starting"
    <3>1. 1 \in Back({"start"})
      BY <1>2, <2>4 DEF Back
    <3>2. UNCHANGED <<child, toServer>>
      BY <2>4 DEF handleResponse
    <3>3. Open => NoOrders' /\ (~m.ok => Quiet)
      <4> SUFFICES ASSUME Open PROVE NoOrders' /\ (~m.ok => Quiet)
        OBVIOUS
      <4>1. OneTurn /\ Interrupting
        BY <1>1 DEF Session
      <4>2. Back({"start"})' = {}
        BY <1>2, <3>1, <4>1 DEF OneTurn
      <4>3. Out({"start"})' = {}
        <5>1. Back(Ends \cup {"start"}) # {}
          BY <3>1 DEF Back
        <5> QED BY <3>2, <4>1, <5>1 DEF OneTurn, Out
      <4>4. Out({"interrupt"})' = {} /\ Back({"interrupt"})' = {}
        BY <1>2, <2>4, <3>2, <4>1 DEF Interrupting, Out
      <4> QED BY <1>2, <3>1, <4>1, <4>2, <4>3, <4>4 DEF OneTurn, NoOrders
    <3>4. CASE m.ok
      <4>1. phase' = "registering" /\ known' = known \cup {turns} /\ UNCHANGED <<context, stream>>
        BY <2>4, <3>4 DEF handleResponse
      <4>2. ASSUME Open PROVE OneTurn' /\ Over' /\ Interrupting'
        <5>1. OneTurn /\ Over /\ Interrupting
          BY <1>1, <4>2 DEF Session
        <5>2. OneTurn' /\ Interrupting' /\ (Quiet => Quiet')
          BY <1>1, <1>2, <1>3, <3>2, <3>3, <4>2, <5>1, NoMail, Thinner DEF TypeOK
        <5>3. Over'
          BY <1>3, <2>4, <4>1, <5>1, <5>2 DEF Over
        <5> QED BY <5>2, <5>3
      <4>3. Session'
        BY <4>1, <4>2 DEF Session, Open
      <4> QED BY <1>3, <2>2, <4>1, <4>3 DEF CodexInv, Closed, OwnCompletion
    <3>5. CASE ~m.ok
      <4>1. context' = [context EXCEPT !.pending = None] /\ stream' = [stream EXCEPT ![turns] = "cut"]
        BY <2>4, <3>5 DEF handleResponse
      <4>2. context \in Context
        BY <1>1 DEF TypeOK, Reads
      <4>3. context'.pending = None /\ (Open' => Open) /\ Closed'
        BY <4>1, <4>2 DEF Context, Open, Closed, Reads
      <4>4. Session'
        BY <1>1, <1>2, <1>3, <3>2, <3>3, <3>5, <4>3, NoMail, SessionSettled DEF TypeOK, Session
      <4>5. OwnCompletion'
        BY <1>3, <4>1 DEF OwnCompletion, CodexInv, TypeOK
      <4> QED BY <2>2, <4>3, <4>4, <4>5 DEF CodexInv
    <3> QED BY <3>4, <3>5
  <2>5. CASE m.kind = "interrupt" /\ phase = "stopping"
    <3>1. 1 \in Back({"interrupt"})
      BY <1>2, <2>5 DEF Back
    <3>2. UNCHANGED <<context, known, stream, child, toServer>>
      BY <2>5 DEF handleResponse
    <3>3. Open => NoOrders' /\ Quiet /\ context.pending = None
      <4> SUFFICES ASSUME Open PROVE NoOrders' /\ Quiet /\ context.pending = None
        OBVIOUS
      <4>1. OneTurn /\ Over /\ Interrupting
        BY <1>1 DEF Session
      <4>2. Back({"interrupt"})' = {} /\ Out({"interrupt"})' = {}
        BY <1>2, <3>1, <3>2, <4>1 DEF Interrupting, Out
      <4>3. Out({"start"}) = {} /\ Back({"start"})' = {} /\ Out({"start"})' = {}
        BY <1>2, <2>5, <3>2, <4>1 DEF OneTurn, Out
      <4>4. Back(Ends) = {}
        <5>1. \A j \in Back(Ends) : j < 1 /\ j \in DOMAIN toClient
          BY <3>1, <4>1 DEF Interrupting, Back
        <5>2. DOMAIN toClient = 1..Len(toClient)
          BY <1>1 DEF TypeOK
        <5> QED BY <5>1, <5>2
      <4>5. child.turn = None /\ context.pending = None
        BY <2>5, <3>1, <4>1 DEF Interrupting, Over
      <4> QED BY <4>2, <4>3, <4>4, <4>5 DEF NoOrders, Quiet
    <3>4. Session'
      BY <1>1, <1>2, <1>3, <3>2, <3>3, NoMail, SessionSettled DEF TypeOK, Open, Session
    <3> QED BY <1>3, <2>2, <3>2, <3>4 DEF CodexInv, Closed, OwnCompletion
  <2> QED BY <1>5, <2>3, <2>4, <2>5 DEF handleResponse
<1> QED BY <1>4, <1>5

LEMMA ReadNotification ==
  ASSUME CodexInv, TypeOK', NEW m, Reads(m), handleNotification(m)
  PROVE  CodexInv'
<1>1. TypeOK /\ Session /\ Closed
  BY DEF CodexInv
<1>2. /\ Fewer(toClient, toClient', News)
      /\ \A i \in Back({"ask"})' : toClient'[i].n \in 1..MaxAsks
  BY ReadMail
<1>3. UNCHANGED <<turns, finished, doubled>> /\ context # None
  BY DEF Reads
<1>4. Open /\ context \in Context /\ context.pending = turns /\ Pending = turns /\ turns \in Turns
  BY <1>1, PendingIsLast DEF handleNotification
<1>5. OneTurn /\ Over /\ Interrupting
  BY <1>1, <1>4 DEF Session
<1>6. CASE m.kind = "error" /\ failContext
  BY <1>2, <1>3, <1>6, FailKeeps DEF handleNotification
<1>7. CASE m.kind = "plan" /\ handleTurnCompleted(m) /\ child' = child
  <2>1. onToolRequest(Plan) /\ UNCHANGED <<context, stream, phase>>
    BY <1>7 DEF handleTurnCompleted
  <2>2. toServer' \in Seq(Message) /\ Fewer(toServer, toServer', Orders)
    BY <1>1, <2>1, ToolRequest, Bounds
  <2>3. Quiet' /\ turns \in finished
    BY <1>4, <1>7, <2>2, ReadEnd DEF Ends
  <2>4. Queue' /\ QuestionIsAsked'
    BY <1>2, <1>3, <2>1, <2>3, Asked, Bounds DEF Open
  <2>5. OneTurn' /\ Interrupting'
    BY <1>1, <1>2, <1>3, <1>5, <1>7, <2>1, <2>2, Thinner DEF TypeOK
  <2>6. Over'
    BY <1>3, <1>5, <2>1, <2>3 DEF Over
  <2> QED BY <1>3, <2>1, <2>4, <2>5, <2>6 DEF CodexInv, Session, Closed, OwnCompletion
<1>8. CASE m.kind \in {"completed", "interrupted"} /\ handleTurnCompleted(m) /\ child' = child
  <2>1. context' = [context EXCEPT !.pending = None] /\ stream' = [stream EXCEPT ![turns] = m.kind]
        /\ UNCHANGED <<known, phase, chain, slot, toServer>>
    BY <1>4, <1>8 DEF handleTurnCompleted
  <2>2. toServer' \in Seq(Message) /\ Fewer(toServer, toServer', Orders)
    BY <1>1, <2>1, NoMail DEF TypeOK
  <2>3. Quiet' /\ (m.kind = "completed" => turns \in finished)
    BY <1>4, <1>8, <2>2, ReadEnd DEF Ends
  <2>4. context'.pending = None /\ Closed'
    BY <1>4, <2>1 DEF Context, Closed
  <2>5. OneTurn' /\ Interrupting'
    BY <1>1, <1>2, <1>3, <1>5, <1>8, <2>1, <2>2, Thinner DEF TypeOK
  <2>6. Over'
    BY <2>3, <2>4, OverWhenQuiet
  <2>7. OwnCompletion'
    BY <1>3, <1>8, <2>1, <2>3 DEF OwnCompletion, CodexInv, TypeOK
  <2>8. Queue' /\ QuestionIsAsked'
    BY <1>2, <1>3, <2>1, <2>3 DEF CodexInv, Queue, QuestionIsAsked
  <2> QED BY <2>4, <2>5, <2>6, <2>7, <2>8 DEF CodexInv, Session
<1> QED BY <1>6, <1>7, <1>8 DEF handleNotification

LEMMA ReadKeeps ==
  ASSUME CodexInv, TypeOK', Read
  PROVE  CodexInv'
<1> DEFINE m == Head(toClient)
<1>1. Reads(m)
  BY DEF Read, Reads
<1>2. \/ handleResponse(m) /\ UNCHANGED <<chain, slot>>
      \/ handleNotification(m) \/ handleServerRequest(m) \/ Ignored(m)
  BY DEF Read
<1> HIDE DEF m
<1>3. /\ m \in Message /\ m = toClient[1] /\ 1 \in DOMAIN toClient
      /\ Fewer(toClient, toClient', News)
      /\ \A i \in Back({"ask"})' : toClient'[i].n \in 1..MaxAsks
  BY <1>1, ReadMail
<1>4. UNCHANGED <<turns, finished, doubled>> /\ TypeOK
  BY <1>1 DEF Reads, CodexInv
<1>5. CASE handleServerRequest(m)
  <2>1. m.kind = "ask" /\ UNCHANGED <<context, known, stream, phase, child>>
    BY <1>5 DEF handleServerRequest
  <2>2. m.n \in Nat /\ m.n # Plan /\ <<m.n>> \in Seq(Nat) /\ <<m.n>> # <<>>
    <3>1. m.n \in 1..MaxAsks
      BY <1>3, <2>1 DEF CodexInv, Queue, Back
    <3> QED BY <3>1, Bounds
  <2>3. toServer' \in Seq(Message) /\ Fewer(toServer, toServer', Orders)
    <3>1. CASE Pending # None
      BY <1>4, <1>5, <2>2, <3>1, ToolRequest DEF handleServerRequest
    <3>2. CASE Pending = None
      BY <1>4, <1>5, <2>2, <3>2, Replies DEF handleServerRequest, TypeOK
    <3> QED BY <3>1, <3>2
  <2>4. Session' /\ (Open /\ Quiet => Quiet')
    BY <1>3, <1>4, <2>1, <2>3, SessionKept DEF CodexInv, TypeOK
  <2>5. Queue' /\ QuestionIsAsked'
    <3>1. CASE Pending # None
      BY <1>3, <1>4, <1>5, <2>1, <2>2, <2>4, <3>1, Asked DEF handleServerRequest, Open
    <3>2. CASE Pending = None
      <4>1. UNCHANGED <<chain, slot>>
        BY <1>5, <3>2 DEF handleServerRequest
      <4> QED BY <1>3, <1>4, <2>1, <2>4, <4>1 DEF CodexInv, Queue, QuestionIsAsked, Open
    <3> QED BY <3>1, <3>2
  <2> QED BY <1>4, <2>1, <2>4, <2>5 DEF CodexInv, Closed, OwnCompletion
<1>6. CASE Ignored(m)
  <2>1. UNCHANGED <<context, known, stream, phase, chain, slot, child, toServer>>
    BY <1>6 DEF Ignored
  <2>2. Session' /\ (Open /\ Quiet => Quiet')
    BY <1>3, <1>4, <2>1, NoMail, SessionKept DEF CodexInv, TypeOK
  <2> QED BY <1>3, <1>4, <2>1, <2>2 DEF CodexInv, Queue, QuestionIsAsked, Closed, OwnCompletion, Open
<1> QED BY <1>1, <1>2, <1>5, <1>6, ReadReply, ReadNotification

-----------------------------------------------------------------------------

LEMMA CodexInvInit == Init => CodexInv
<1> SUFFICES ASSUME Init PROVE CodexInv
  OBVIOUS
<1>1. TypeOK
  BY TypeInit
<1>2. Closed /\ QuestionIsAsked /\ Session
  BY DEF Init, Closed, QuestionIsAsked, Session, Open
<1>3. Queue
  BY DEF Init, Queue, Back
<1>4. OwnCompletion
  BY DEF Init, OwnCompletion
<1> QED BY <1>1, <1>2, <1>3, <1>4 DEF CodexInv

LEMMA CodexInvStep ==
  ASSUME CodexInv, [Next]_vars
  PROVE  CodexInv'
<1>1. TypeOK'
  BY TypeStep DEF CodexInv
<1>2. CASE Coordinate
  BY <1>1, <1>2, StartSessionKeeps, StartTurnKeeps, CoordinatorMoves, InterruptKeeps, CloseKeeps, DiscardKeeps
  DEF Coordinate
<1>3. CASE Read
  BY <1>1, <1>3, ReadKeeps
<1>4. CASE ProcessClosed
  <2>1. context # None /\ failContext /\ UNCHANGED <<turns, finished, doubled, chain, slot, toClient>>
    BY <1>4 DEF ProcessClosed, Open, tools, provider
  <2> QED BY <1>1, <2>1, SameNews, FailKeeps
<1>5. CASE Serve \/ Asks \/ Completes \/ Errs \/ Dies
  BY <1>1, <1>5, ServeKeeps, ProviderKeeps
<1>6. CASE \E c \in Clients : respondTool(c) \/ AnswerWritten(c)
  BY <1>1, <1>6, ToolsKeep
<1>7. CASE UNCHANGED vars
  BY <1>1, <1>7 DEF vars, manager, tools, provider, CodexInv, Closed, Queue, OwnCompletion, QuestionIsAsked,
     Session, Open, OneTurn, Over, Interrupting, Quiet, Out, Back
<1> QED BY <1>2, <1>3, <1>4, <1>5, <1>6, <1>7 DEF Next

\* The chat's state, its pipes and its process keep their shape (codex-app-server.ts as a
\* whole), and the invariant holds, whatever clients, turns, questions and processes do.
THEOREM Invariance == Spec => []CodexInv
BY CodexInvInit, CodexInvStep, PTL DEF Spec

\* While the coordinator takes the chat for idle the provider works on no turn of it, and a
\* stream ends as completed only for the turn that was, although completions are not
\* compared with the turn that waits (codex-app-server.ts:961, :1610).
THEOREM WhatIsOverIsOver == Spec => []OverIsOver
<1>1. CodexInv => OverIsOver
  <2> SUFFICES ASSUME CodexInv PROVE OverIsOver
    OBVIOUS
  <2>1. IdleMeansIdle
    BY IdleIsQuiet DEF IdleMeansIdle, Quiet
  <2> QED BY <2>1 DEF OverIsOver, CodexInv
<1> QED BY <1>1, Invariance, PTL

\* Clients can answer the question that a running turn waits for, for any number of
\* questions and of clients that answer them (agent.ts:1518, agent.ts:2533).
THEOREM QuestionsAreAsked == Spec => []QuestionIsAsked
<1>1. CodexInv => QuestionIsAsked
  BY DEF CodexInv
<1> QED BY <1>1, Invariance, PTL

-----------------------------------------------------------------------------
(***************************************************************************)
(* Turns of a chat in a Claude session (ClaudeSession).                    *)
(***************************************************************************)
(* The inductive invariant. *)

\* Prompts are numbered in the order they were given.
Numbered(seqs, last) ==
  \A i \in DOMAIN seqs : seqs[i] <= last /\ \A j \in DOMAIN seqs : i < j => seqs[i] < seqs[j]

\* Counting up from "least", those of the sequence that are in S come to "most" or less.
Counted(seq, S, least, most) ==
  \E count \in [0..Len(seq) -> Nat] :
    /\ least <= count[0] /\ count[Len(seq)] <= most
    /\ \A i, j \in 0..Len(seq) : i <= j =>
         count[i] <= count[j] /\ (i < j /\ seq[j] \in S => count[i] < count[j])

Event == [kind : {"result", "interrupted"}, asked : BOOLEAN]
Wanted == {e \in Event : e.asked}
Turn == Nat \ {0}

\* Each prompt that the process has, or has answered for a loop that did not read it yet, is
\* one of those the loop waits for.
Ahead(p) == (IF p.working \in {None, 0} THEN 0 ELSE 1) + Len(p.waiting)
Due(p, said) ==
  Counted(p.output, Wanted, 0, said) /\ Counted(p.input, Turn, said + Ahead(p), Len(p.pendingPromptSeqs))
Awaited(p) == Numbered(p.pendingPromptSeqs, p.nextPromptSeq) /\ \E said \in Nat : Due(p, said)

\* The turns that the process has.
Held(p) == ({p.working} \cup {p.waiting[i] : i \in DOMAIN p.waiting}
             \cup {p.input[i] : i \in DOMAIN p.input}) \ {None, 0}
Alive(p) == ~p.dead /\ ~p.closed

Numbers == 1..MaxSessions
Launch == [turn : Nat, session : Numbers \cup {None}, by : Numbers \cup {None}]

SessionsOK ==
  /\ sessions \in [Numbers -> Claude!Session \cup {None}]
  /\ misled \/ \A s \in Numbers : sessions[s] # None => Awaited(sessions[s])

ClaudeTypeOK ==
  /\ claudeSessions \in Numbers \cup {None} /\ activeTurn \in Claude!ActiveTurn \cup {None}
  /\ launch \in Launch \cup {None} /\ prompts \in 0..MaxPrompts
  /\ stopping \in Numbers \cup {None} /\ trespassed \in BOOLEAN /\ misled \in BOOLEAN
  /\ outcome \in [Claude!Turns -> {"none", "failed", "finished", "cancelled"}]

\* Nothing is launched beside the active turn, whose prompt is the last that was given; and
\* the chat's session is theirs, or none.
Entered ==
  /\ claudeSessions # None => sessions[claudeSessions] # None
  /\ activeTurn # None =>
       /\ launch = None /\ activeTurn.turn \in 1..prompts
       /\ activeTurn.session \in Numbers /\ sessions[activeTurn.session] # None
       /\ claudeSessions \in {activeTurn.session, None}
       /\ activeTurn.seq # None => activeTurn.seq = sessions[activeTurn.session].nextPromptSeq
       /\ activeTurn.cancelled => outcome[activeTurn.turn] = "cancelled"
  /\ stopping # None =>
       /\ sessions[stopping] # None /\ launch = None
       /\ activeTurn # None => activeTurn.cancelled
  /\ launch # None =>
       /\ launch.turn \in 1..prompts /\ outcome[launch.turn] = "none"
       /\ claudeSessions \in {launch.session, None}
       /\ launch.session # None => sessions[launch.session] # None
       /\ launch.by # None => sessions[launch.by] # None
  /\ \A t \in Claude!Turns : t > prompts => outcome[t] = "none"

\* A process that runs is the chat's, and has no turn but the active one and cancelled ones.
Shows(s) ==
  /\ claudeSessions = s
  /\ misled \/ \A t \in Held(sessions[s]) :
       /\ t \in 1..prompts
       /\ outcome[t] = "cancelled" \/ (activeTurn # None /\ activeTurn.turn = t)
Shown == ~trespassed => \A s \in Numbers : sessions[s] # None /\ Alive(sessions[s]) => Shows(s)

ClaudeInv == SessionsOK /\ ClaudeTypeOK /\ Entered /\ Shown

-----------------------------------------------------------------------------
(* Counting. *)

LEMMA CountedBy ==
  ASSUME NEW input, NEW S, NEW n, Len(input) = n, NEW least, NEW most, NEW count \in [0..n -> Nat],
         least <= count[0], count[n] <= most,
         \A i, j \in 0..n : i <= j => count[i] <= count[j] /\ (i < j /\ input[j] \in S => count[i] < count[j])
  PROVE  Counted(input, S, least, most)
BY DEF Counted

LEMMA CountedNone ==
  ASSUME NEW S, NEW least \in Nat, NEW most \in Nat, least <= most
  PROVE  Counted(<<>>, S, least, most)
<1> DEFINE count == [i \in 0..0 |-> least]
<1>1. Len(<<>>) = 0 /\ count \in [0..0 -> Nat] /\ count[0] = least
  OBVIOUS
<1> HIDE DEF count
<1>2. \A i, j \in 0..0 : count[i] <= count[j] /\ ~(i < j)
  BY <1>1
<1> QED BY <1>1, <1>2 DEF Counted

LEMMA CountedAppended ==
  ASSUME NEW E, NEW S, NEW input \in Seq(E), NEW x \in E, NEW least \in Nat, NEW most \in Nat,
         Counted(input, S, least, most)
  PROVE  Counted(Append(input, x), S, least, IF x \in S THEN most + 1 ELSE most)
<1>1. PICK count \in [0..Len(input) -> Nat] :
        /\ least <= count[0] /\ count[Len(input)] <= most
        /\ \A i, j \in 0..Len(input) : i <= j =>
             count[i] <= count[j] /\ (i < j /\ input[j] \in S => count[i] < count[j])
  BY DEF Counted
<1> DEFINE n == Len(input)
           last == IF x \in S THEN most + 1 ELSE most
           more == [i \in 0..n + 1 |-> IF i = n + 1 THEN last ELSE count[i]]
<1>2. n \in Nat /\ Len(Append(input, x)) = n + 1 /\ Append(input, x)[n + 1] = x
      /\ \A i \in 1..n : Append(input, x)[i] = input[i]
  OBVIOUS
<1>3. last \in Nat /\ most <= last /\ (x \in S => most < last)
  OBVIOUS
<1> HIDE DEF last
<1>4. more \in [0..n + 1 -> Nat] /\ more[0] = count[0] /\ more[n + 1] = last
      /\ \A i \in 0..n : more[i] = count[i]
  BY <1>2, <1>3
<1> HIDE DEF more
<1>5. ASSUME NEW i \in 0..n + 1, NEW j \in 0..n + 1, i <= j
      PROVE  more[i] <= more[j] /\ (i < j /\ Append(input, x)[j] \in S => more[i] < more[j])
  <2>1. CASE j <= n
    <3>1. i \in 0..n /\ j \in 0..n /\ (i < j => Append(input, x)[j] = input[j])
      BY <2>1, <1>5, <1>2
    <3> QED BY <3>1, <1>1, <1>4, <1>5
  <2>2. CASE j = n + 1 /\ i <= n
    <3>1. i \in 0..n /\ n \in 0..n /\ count[i] \in Nat /\ count[n] \in Nat
      BY <2>2, <1>2
    <3>2. more[i] <= most
      BY <3>1, <1>1, <1>4, <1>2
    <3> QED BY <3>2, <2>2, <1>2, <1>3, <1>4, <3>1
  <2>3. CASE j = n + 1 /\ i = n + 1
    BY <2>3, <1>4, <1>3
  <2> QED BY <2>1, <2>2, <2>3, <1>2, <1>5
<1>6. Counted(Append(input, x), S, least, last)
  <2>1. least <= more[0] /\ more[n + 1] <= last
    BY <1>1, <1>3, <1>4
  <2> QED BY <2>1, <1>2, <1>4, <1>5, CountedBy
<1> QED BY <1>6 DEF last

LEMMA CountedRead ==
  ASSUME NEW E, NEW S, NEW input \in Seq(E), input # <<>>, NEW least \in Nat, NEW most \in Nat,
         Counted(input, S, least, most)
  PROVE  Counted(Tail(input), S, IF Head(input) \in S THEN least + 1 ELSE least, most)
<1>1. PICK count \in [0..Len(input) -> Nat] :
        /\ least <= count[0] /\ count[Len(input)] <= most
        /\ \A i, j \in 0..Len(input) : i <= j =>
             count[i] <= count[j] /\ (i < j /\ input[j] \in S => count[i] < count[j])
  BY DEF Counted
<1> DEFINE n == Len(input) - 1
           rest == [i \in 0..n |-> count[i + 1]]
<1>2. n \in Nat /\ Len(input) = n + 1 /\ Len(Tail(input)) = n /\ Head(input) = input[1]
      /\ \A i \in 1..n : Tail(input)[i] = input[i + 1]
  OBVIOUS
<1> HIDE DEF n
<1>3. /\ rest \in [0..n -> Nat] /\ rest[0] = count[1] /\ rest[n] = count[n + 1]
      /\ \A i \in 0..n : i + 1 \in 0..n + 1 /\ rest[i] = count[i + 1]
  BY <1>2
<1> HIDE DEF rest
<1>4. (IF Head(input) \in S THEN least + 1 ELSE least) <= rest[0]
  <2>1. 0 \in 0..n + 1 /\ 1 \in 0..n + 1 /\ count[0] \in Nat /\ count[1] \in Nat
    BY <1>2
  <2> QED BY <2>1, <1>1, <1>2, <1>3
<1>5. ASSUME NEW i \in 0..n, NEW j \in 0..n, i <= j
      PROVE  rest[i] <= rest[j] /\ (i < j /\ Tail(input)[j] \in S => rest[i] < rest[j])
  <2>1. i + 1 \in 0..n + 1 /\ j + 1 \in 0..n + 1 /\ i + 1 <= j + 1 /\ (i < j => j \in 1..n /\ i + 1 < j + 1)
    BY <1>5, <1>2
  <2> QED BY <2>1, <1>1, <1>2, <1>3
<1> QED BY <1>1, <1>2, <1>3, <1>4, <1>5 DEF Counted

LEMMA CountedLess ==
  ASSUME NEW E, NEW S, NEW input \in Seq(E), NEW least \in Nat, NEW most \in Nat, 1 <= least,
         Counted(input, S, least, most)
  PROVE  Counted(input, S, least - 1, most - 1)
<1>1. PICK count \in [0..Len(input) -> Nat] :
        /\ least <= count[0] /\ count[Len(input)] <= most
        /\ \A i, j \in 0..Len(input) : i <= j =>
             count[i] <= count[j] /\ (i < j /\ input[j] \in S => count[i] < count[j])
  BY DEF Counted
<1> DEFINE n == Len(input)
           less == [i \in 0..n |-> count[i] - 1]
<1>2. n \in Nat /\ 0 \in 0..n /\ n \in 0..n
  OBVIOUS
<1> HIDE DEF n
<1>3. \A i \in 0..n : count[i] \in Nat /\ 1 <= count[i]
  BY <1>1, <1>2 DEF n
<1>4. less \in [0..n -> Nat] /\ \A i \in 0..n : less[i] = count[i] - 1
  BY <1>3
<1> HIDE DEF less
<1>5. least - 1 <= less[0] /\ less[n] <= most - 1
  BY <1>1, <1>2, <1>3, <1>4 DEF n
<1>6. ASSUME NEW i \in 0..n, NEW j \in 0..n, i <= j
      PROVE  less[i] <= less[j] /\ (i < j /\ input[j] \in S => less[i] < less[j])
  BY <1>1, <1>3, <1>4, <1>6 DEF n
<1> QED BY <1>4, <1>5, <1>6, CountedBy DEF n

LEMMA CountedWithin ==
  ASSUME NEW E, NEW S, NEW input \in Seq(E), NEW least \in Nat, NEW most \in Nat, Counted(input, S, least, most)
  PROVE  /\ least <= most
         /\ \A i \in DOMAIN input : input[i] \in S => least < most
         /\ \A few \in Nat, many \in Nat : few <= least /\ most <= many => Counted(input, S, few, many)
<1>1. PICK count \in [0..Len(input) -> Nat] :
        /\ least <= count[0] /\ count[Len(input)] <= most
        /\ \A i, j \in 0..Len(input) : i <= j =>
             count[i] <= count[j] /\ (i < j /\ input[j] \in S => count[i] < count[j])
  BY DEF Counted
<1>2. Len(input) \in Nat /\ 0 \in 0..Len(input) /\ Len(input) \in 0..Len(input) /\ DOMAIN input = 1..Len(input)
  OBVIOUS
<1>3. count[0] \in Nat /\ count[Len(input)] \in Nat /\ count[0] <= count[Len(input)]
  BY <1>1, <1>2
<1>4. ASSUME NEW i \in DOMAIN input, input[i] \in S
      PROVE  least < most
  <2>1. i \in 0..Len(input) /\ 0 < i /\ i <= Len(input) /\ count[i] \in Nat
    BY <1>2
  <2>2. count[0] < count[i] /\ count[i] <= count[Len(input)]
    BY <2>1, <1>1, <1>2, <1>4
  <2> QED BY <2>1, <2>2, <1>1, <1>3
<1>5. ASSUME NEW few \in Nat, NEW many \in Nat, few <= least, most <= many
      PROVE  Counted(input, S, few, many)
  <2>1. few <= count[0] /\ count[Len(input)] <= many
    BY <1>1, <1>3, <1>5
  <2> QED BY <2>1, <1>1 DEF Counted
<1> QED BY <1>1, <1>3, <1>4, <1>5

-----------------------------------------------------------------------------
(* Sessions. *)

LEMMA AheadOf ==
  ASSUME NEW p, Len(p.waiting) \in Nat
  PROVE  /\ p.working \in {None, 0} => Ahead(p) = Len(p.waiting)
         /\ p.working \notin {None, 0} => Ahead(p) = Len(p.waiting) + 1
         /\ Ahead(p) \in Nat
<1> DEFINE queue == Len(p.waiting)
           busy == IF p.working \in {None, 0} THEN 0 ELSE 1
           ahead == Ahead(p)
<1>1. queue \in Nat /\ ahead = busy + queue
  BY DEF Ahead
<1>2. (p.working \in {None, 0} => busy = 0) /\ (p.working \notin {None, 0} => busy = 1)
  OBVIOUS
<1> HIDE DEF queue, busy, ahead
<1>3. /\ p.working \in {None, 0} => ahead = queue
      /\ p.working \notin {None, 0} => ahead = queue + 1
      /\ ahead \in Nat
  BY <1>1, <1>2
<1> QED BY <1>3 DEF queue, ahead

LEMMA SessionFields ==
  ASSUME NEW p \in Claude!Session
  PROVE  /\ p.closed \in BOOLEAN /\ p.dead \in BOOLEAN /\ p.loop \in {"reading", "draining", "over"}
         /\ p.nextPromptSeq \in Nat /\ p.pendingPromptSeqs \in Seq(Nat) /\ p.input \in Seq(Turn \cup {None})
         /\ p.working \in Nat \cup {None} /\ p.waiting \in Seq(Turn) /\ p.output \in Seq(Event)
         /\ Ahead(p) \in Nat /\ Len(p.pendingPromptSeqs) \in Nat
         /\ Len(p.output) \in Nat /\ Len(p.waiting) \in Nat
<1>1. /\ p.closed \in BOOLEAN /\ p.dead \in BOOLEAN /\ p.loop \in {"reading", "draining", "over"}
      /\ p.nextPromptSeq \in Nat /\ p.pendingPromptSeqs \in Seq(Nat) /\ p.input \in Seq(Turn \cup {None})
      /\ p.working \in Nat \cup {None} /\ p.waiting \in Seq(Turn) /\ p.output \in Seq(Event)
  BY DEF Claude!Session, Event, Turn
<1>2. Len(p.output) \in Nat /\ Len(p.waiting) \in Nat /\ Len(p.pendingPromptSeqs) \in Nat
  BY <1>1
<1> QED BY <1>1, <1>2, AheadOf

LEMMA SessionAt ==
  ASSUME SessionsOK, NEW s \in Numbers, sessions[s] # None
  PROVE  sessions[s] \in Claude!Session /\ (misled \/ Awaited(sessions[s]))
BY DEF SessionsOK

\* What becomes of a session that is given no prompt.
Milder(p, q) ==
  /\ q \in Claude!Session /\ q.nextPromptSeq = p.nextPromptSeq
  /\ misled' \/ (Awaited(p) => Awaited(q))
  /\ Alive(q) => Alive(p)
  /\ Held(q) \subseteq Held(p)

\* A change of what is neither a prompt nor an event.
LEMMA Retains ==
  ASSUME NEW p \in Claude!Session, NEW q \in Claude!Session,
         q.nextPromptSeq = p.nextPromptSeq, q.pendingPromptSeqs = p.pendingPromptSeqs, q.input = p.input,
         q.working = p.working, q.waiting = p.waiting, q.output = p.output, Alive(q) => Alive(p)
  PROVE  Milder(p, q)
BY DEF Milder, Awaited, Due, Ahead, Held

LEMMA TailOf ==
  ASSUME NEW S, NEW seq \in Seq(S), seq # <<>>
  PROVE  /\ Tail(seq) \in Seq(S) /\ Head(seq) \in S /\ Len(seq) \in Nat /\ 1 <= Len(seq)
         /\ Len(Tail(seq)) = Len(seq) - 1 /\ Head(seq) = seq[1]
         /\ 1 \in DOMAIN seq /\ DOMAIN seq = 1..Len(seq) /\ DOMAIN Tail(seq) = 1..Len(seq) - 1
         /\ \A i \in DOMAIN Tail(seq) : i + 1 \in DOMAIN seq /\ Tail(seq)[i] = seq[i + 1]
OBVIOUS

LEMMA AppendOf ==
  ASSUME NEW S, NEW seq \in Seq(S), NEW x \in S
  PROVE  /\ Append(seq, x) \in Seq(S) /\ Len(Append(seq, x)) = Len(seq) + 1 /\ Len(seq) \in Nat
         /\ DOMAIN seq = 1..Len(seq) /\ DOMAIN Append(seq, x) = 1..Len(seq) + 1
         /\ \A i \in DOMAIN seq : Append(seq, x)[i] = seq[i]
         /\ Append(seq, x)[Len(seq) + 1] = x
         /\ \A i \in DOMAIN Append(seq, x) : \/ i \in DOMAIN seq /\ Append(seq, x)[i] = seq[i]
                                             \/ i = Len(seq) + 1 /\ Append(seq, x)[i] = x
OBVIOUS

\* The process ends a prompt, or work of its own, and takes up the next.
LEMMA NextOf ==
  ASSUME Claude!ClaudeAssumption, NEW p \in Claude!Session, p.working # None,
         NEW kind \in {"result", "interrupted"}
  PROVE  Milder(p, Claude!NextPrompt([p EXCEPT !.output = Append(@, Claude!Says(p, kind))]))
<1> DEFINE e == Claude!Says(p, kind)
           o == [p EXCEPT !.output = Append(@, e)]
           q == Claude!NextPrompt(o)
<1>1. e \in Event /\ (e \in Wanted <=> p.working # 0)
  BY DEF Claude!Says, Event, Wanted
<1> HIDE DEF e
<1>2. Append(p.output, e) \in Seq(Event)
  BY <1>1, SessionFields, AppendOf
<1>3. o \in Claude!Session /\ o.output = Append(p.output, e) /\ o.waiting = p.waiting
  BY <1>2 DEF Claude!Session, Event
<1>4. /\ q \in Claude!Session /\ q.nextPromptSeq = p.nextPromptSeq
      /\ q.pendingPromptSeqs = p.pendingPromptSeqs /\ q.input = p.input
      /\ q.closed = p.closed /\ q.dead = p.dead /\ q.output = Append(p.output, e)
      /\ Len(q.waiting) \in Nat /\ Ahead(q) = Len(p.waiting)
      /\ Held(q) \subseteq Held(p)
  <2>1. CASE p.waiting = <<>>
    <3>1. q = [o EXCEPT !.working = None]
      BY <1>3, <2>1 DEF Claude!NextPrompt
    <3>2. /\ q \in Claude!Session /\ q.nextPromptSeq = p.nextPromptSeq
          /\ q.pendingPromptSeqs = p.pendingPromptSeqs
          /\ q.input = p.input /\ q.closed = p.closed /\ q.dead = p.dead /\ q.working = None
          /\ q.output = Append(p.output, e) /\ q.waiting = p.waiting
      BY <3>1, <1>3 DEF Claude!Session
    <3> HIDE DEF q
    <3>3. Held(q) \subseteq Held(p)
      BY <3>2 DEF Held
    <3>4. Len(q.waiting) \in Nat /\ Ahead(q) = Len(p.waiting)
      BY <3>2, SessionFields, AheadOf
    <3> QED BY <3>2, <3>3, <3>4
  <2>2. CASE p.waiting # <<>>
    <3>1. q = [o EXCEPT !.working = Head(p.waiting), !.waiting = Tail(p.waiting)]
      BY <1>3, <2>2 DEF Claude!NextPrompt
    <3>2. /\ Tail(p.waiting) \in Seq(Turn) /\ Head(p.waiting) \in Turn
          /\ Len(p.waiting) \in Nat /\ 1 <= Len(p.waiting)
          /\ Len(Tail(p.waiting)) = Len(p.waiting) - 1 /\ 1 \in DOMAIN p.waiting
          /\ Head(p.waiting) = p.waiting[1]
          /\ \A i \in DOMAIN Tail(p.waiting) : i + 1 \in DOMAIN p.waiting /\ Tail(p.waiting)[i] = p.waiting[i + 1]
      BY <2>2, SessionFields, TailOf
    <3>3. Head(p.waiting) \in Nat /\ Head(p.waiting) \notin {None, 0}
      BY <3>2 DEF Turn, Claude!ClaudeAssumption
    <3>4. /\ q \in Claude!Session /\ q.nextPromptSeq = p.nextPromptSeq
          /\ q.pendingPromptSeqs = p.pendingPromptSeqs
          /\ q.input = p.input /\ q.closed = p.closed /\ q.dead = p.dead /\ q.working = Head(p.waiting)
          /\ q.output = Append(p.output, e) /\ q.waiting = Tail(p.waiting)
      BY <3>1, <3>2, <3>3, <1>3 DEF Claude!Session, Turn
    <3> HIDE DEF q
    <3>5. Held(q) \subseteq Held(p)
      BY <3>2, <3>4 DEF Held
    <3>6. Len(q.waiting) \in Nat /\ q.working \notin {None, 0} /\ Len(p.waiting) = Len(q.waiting) + 1
      BY <3>2, <3>3, <3>4
    <3>7. Ahead(q) = Len(p.waiting)
      BY <3>6, AheadOf
    <3> QED BY <3>4, <3>5, <3>6, <3>7
  <2> QED BY <2>1, <2>2
<1> HIDE DEF q, o
<1>5. Alive(q) = Alive(p)
  BY <1>4 DEF Alive
<1>6. ASSUME Awaited(p)
      PROVE  Awaited(q)
  <2>1. PICK said \in Nat : Due(p, said)
    BY <1>6 DEF Awaited
  <2>2. /\ p.output \in Seq(Event) /\ p.input \in Seq(Turn \cup {None}) /\ Ahead(p) \in Nat
        /\ Len(p.waiting) \in Nat /\ Len(p.pendingPromptSeqs) \in Nat
    BY SessionFields
  <2>3. Counted(Append(p.output, e), Wanted, 0, IF e \in Wanted THEN said + 1 ELSE said)
    BY <1>1, <2>1, <2>2, CountedAppended DEF Due
  <2>4. CASE p.working = 0
    <3>1. Ahead(p) = Len(p.waiting)
      BY <2>2, <2>4, AheadOf
    <3>2. Counted(q.output, Wanted, 0, said)
      BY <1>1, <1>4, <2>3, <2>4
    <3>3. Counted(q.input, Turn, said + Ahead(q), Len(q.pendingPromptSeqs))
      BY <1>4, <2>1, <3>1 DEF Due
    <3> QED BY <1>4, <1>6, <3>2, <3>3 DEF Awaited, Due
  <2>5. CASE p.working # 0
    <3>1. Ahead(p) = Len(p.waiting) + 1
      BY <2>2, <2>5, AheadOf
    <3>2. Counted(q.output, Wanted, 0, said + 1)
      BY <1>1, <1>4, <2>3, <2>5
    <3>3. said + Ahead(p) = (said + 1) + Ahead(q) /\ said + 1 \in Nat
      <4> DEFINE queue == Len(p.waiting)
                 before == Ahead(p)
                 after == Ahead(q)
      <4>1. said \in Nat /\ queue \in Nat /\ before = queue + 1 /\ after = queue
        BY <1>4, <2>1, <2>2, <3>1
      <4> HIDE DEF queue, before, after
      <4>2. said + before = (said + 1) + after /\ said + 1 \in Nat
        BY <4>1
      <4> QED BY <4>2 DEF before, after
    <3>4. Counted(q.input, Turn, (said + 1) + Ahead(q), Len(q.pendingPromptSeqs))
      BY <1>4, <2>1, <3>3 DEF Due
    <3> QED BY <1>4, <1>6, <3>2, <3>3, <3>4 DEF Awaited, Due
  <2> QED BY <2>4, <2>5
<1>7. Milder(p, q)
  BY <1>4, <1>5, <1>6 DEF Milder
<1> QED BY <1>7 DEF q, o, e

LEMMA MilderStill ==
  ASSUME NEW p, NEW o, NEW q, Milder(p, o), Milder(o, q)
  PROVE  Milder(p, q)
BY DEF Milder

LEMMA Reading ==
  ASSUME Claude!ClaudeAssumption, NEW p \in Claude!Session, p.input # <<>>
  PROVE  LET o == [p EXCEPT !.input = Tail(@)]
             turn == Head(p.input) IN
         Milder(p, IF turn = None
                   THEN IF o.working = None THEN o
                        ELSE Claude!NextPrompt([o EXCEPT !.output = Append(@, Claude!Says(o, "interrupted"))])
                   ELSE IF o.working = None THEN [o EXCEPT !.working = turn]
                        ELSE [o EXCEPT !.waiting = Append(@, turn)])
<1> DEFINE o == [p EXCEPT !.input = Tail(@)]
           turn == Head(p.input)
<1>1. /\ Tail(p.input) \in Seq(Turn \cup {None}) /\ turn \in Turn \cup {None} /\ turn = p.input[1]
      /\ 1 \in DOMAIN p.input
      /\ \A i \in DOMAIN Tail(p.input) : i + 1 \in DOMAIN p.input /\ Tail(p.input)[i] = p.input[i + 1]
  BY SessionFields, TailOf
<1>2. /\ o \in Claude!Session /\ o.input = Tail(p.input) /\ o.nextPromptSeq = p.nextPromptSeq
      /\ o.pendingPromptSeqs = p.pendingPromptSeqs /\ o.closed = p.closed /\ o.dead = p.dead
      /\ o.working = p.working /\ o.waiting = p.waiting /\ o.output = p.output
  BY <1>1 DEF Claude!Session, Turn
<1> HIDE DEF o
<1>3. turn \in Turn <=> turn # None
  BY <1>1 DEF Turn, Claude!ClaudeAssumption
<1>4. /\ Ahead(o) = Ahead(p) /\ Ahead(p) \in Nat /\ Held(o) \subseteq Held(p) /\ Alive(o) = Alive(p)
      /\ (turn # None => turn \in Held(p))
  <2>1. Ahead(o) = Ahead(p) /\ Ahead(p) \in Nat
    BY <1>2, SessionFields DEF Ahead
  <2>2. Held(o) \subseteq Held(p) /\ Alive(o) = Alive(p)
    BY <1>1, <1>2 DEF Held, Alive
  <2>3. turn # None => turn \in Held(p)
    BY <1>1, <1>3 DEF Held, Turn
  <2> QED BY <2>1, <2>2, <2>3
<1>5. ASSUME NEW said \in Nat, Due(p, said)
      PROVE  Counted(o.input, Turn, said + (IF turn = None THEN Ahead(p) ELSE Ahead(p) + 1), Len(p.pendingPromptSeqs))
  <2>1. /\ p.input \in Seq(Turn \cup {None}) /\ said + Ahead(p) \in Nat /\ Len(p.pendingPromptSeqs) \in Nat
    BY <1>4, SessionFields
  <2>2. Counted(Tail(p.input), Turn, IF turn \in Turn THEN said + Ahead(p) + 1 ELSE said + Ahead(p), Len(p.pendingPromptSeqs))
    BY <1>5, <2>1, CountedRead DEF Due
  <2>3. (IF turn \in Turn THEN said + Ahead(p) + 1 ELSE said + Ahead(p))
         = said + (IF turn = None THEN Ahead(p) ELSE Ahead(p) + 1)
    BY <1>3, <1>4
  <2> QED BY <2>2, <2>3, <1>2
<1>6. CASE turn = None
  <2>1. Milder(p, o)
    <3>1. ASSUME NEW said \in Nat, Due(p, said)
          PROVE  Due(o, said)
      BY <1>2, <1>4, <1>5, <1>6, <3>1 DEF Due
    <3> QED BY <1>2, <1>4, <3>1 DEF Milder, Awaited
  <2>2. CASE o.working = None
    BY <2>1, <2>2, <1>6 DEF o
  <2>3. CASE o.working # None
    <3> DEFINE q == Claude!NextPrompt([o EXCEPT !.output = Append(@, Claude!Says(o, "interrupted"))])
    <3>1. Milder(o, q)
      BY <1>2, <2>3, NextOf
    <3> HIDE DEF q
    <3>2. Milder(p, q)
      BY <2>1, <3>1, MilderStill
    <3> QED BY <3>2, <2>3, <1>6 DEF q, o
  <2> QED BY <2>2, <2>3
<1>7. CASE turn # None
  <2> DEFINE q == IF o.working = None THEN [o EXCEPT !.working = turn] ELSE [o EXCEPT !.waiting = Append(@, turn)]
  <2>1. /\ turn \in Turn /\ turn \in Nat /\ turn \notin {None, 0}
        /\ o.waiting \in Seq(Turn) /\ Len(o.waiting) \in Nat
    BY <1>2, <1>3, <1>7, SessionFields DEF Turn
  <2>2. /\ Append(o.waiting, turn) \in Seq(Turn) /\ Len(Append(o.waiting, turn)) = Len(o.waiting) + 1
        /\ \A i \in DOMAIN Append(o.waiting, turn) :
             \/ i \in DOMAIN o.waiting /\ Append(o.waiting, turn)[i] = o.waiting[i]
             \/ Append(o.waiting, turn)[i] = turn
    BY <2>1, AppendOf
  <2>3. /\ q \in Claude!Session /\ q.input = o.input /\ q.nextPromptSeq = o.nextPromptSeq
        /\ q.pendingPromptSeqs = o.pendingPromptSeqs /\ q.closed = o.closed /\ q.dead = o.dead
        /\ q.output = o.output
        /\ o.working = None => q.working = turn /\ q.waiting = o.waiting
        /\ o.working # None => q.working = o.working /\ q.waiting = Append(o.waiting, turn)
    BY <2>1, <2>2, <1>2 DEF Claude!Session, Turn
  <2> HIDE DEF q
  <2>4. Ahead(q) = Ahead(p) + 1
    <3>1. CASE o.working = None
      BY <3>1, <2>1, <2>3, <1>4, AheadOf
    <3>2. CASE o.working # None
      <4>1. Len(q.waiting) = Len(o.waiting) + 1 /\ Len(q.waiting) \in Nat /\ q.working = o.working
        BY <3>2, <2>1, <2>2, <2>3
      <4>2. CASE o.working = 0
        BY <4>1, <4>2, <2>1, <1>4, AheadOf
      <4>3. CASE o.working # 0
        <5>1. Ahead(q) = Len(q.waiting) + 1
          BY <4>1, <4>3, <3>2, AheadOf
        <5>2. Ahead(o) = Len(o.waiting) + 1
          BY <4>3, <3>2, <2>1, AheadOf
        <5> QED BY <5>1, <5>2, <4>1, <2>1, <1>4
      <4> QED BY <4>2, <4>3
    <3> QED BY <3>1, <3>2
  <2>5. Held(q) \subseteq Held(o) \cup {turn} /\ Alive(q) = Alive(o)
    BY <2>2, <2>3 DEF Held, Alive
  <2>6. ASSUME NEW said \in Nat, Due(p, said)
        PROVE  Due(q, said)
    BY <2>3, <2>4, <2>6, <1>2, <1>5, <1>7 DEF Due
  <2>7. Milder(p, q)
    BY <2>3, <2>5, <2>6, <1>2, <1>4, <1>7 DEF Milder, Awaited
  <2> QED BY <2>7, <1>7 DEF q, o
<1> QED BY <1>6, <1>7

LEMMA Waking ==
  ASSUME Claude!ClaudeAssumption, NEW p \in Claude!Session, p.working = None
  PROVE  Milder(p, [p EXCEPT !.working = 0])
<1> DEFINE q == [p EXCEPT !.working = 0]
<1>1. /\ q \in Claude!Session /\ q.input = p.input /\ q.nextPromptSeq = p.nextPromptSeq
      /\ q.pendingPromptSeqs = p.pendingPromptSeqs /\ q.closed = p.closed /\ q.dead = p.dead
      /\ q.output = p.output /\ q.working = 0 /\ q.waiting = p.waiting
  BY DEF Claude!Session
<1> HIDE DEF q
<1>2. Ahead(q) = Ahead(p)
  BY <1>1, SessionFields, AheadOf
<1>3. Held(q) \subseteq Held(p) /\ Alive(q) = Alive(p)
  BY <1>1 DEF Held, Alive
<1>4. Milder(p, q)
  BY <1>1, <1>2, <1>3 DEF Milder, Awaited, Due
<1> QED BY <1>4 DEF q

LEMMA Dying ==
  ASSUME Claude!ClaudeAssumption, NEW p \in Claude!Session
  PROVE  Milder(p, [p EXCEPT !.dead = TRUE, !.working = None, !.waiting = <<>>, !.input = <<>>])
<1> DEFINE q == [p EXCEPT !.dead = TRUE, !.working = None, !.waiting = <<>>, !.input = <<>>]
<1>1. /\ q \in Claude!Session /\ q.input = <<>> /\ q.nextPromptSeq = p.nextPromptSeq
      /\ q.pendingPromptSeqs = p.pendingPromptSeqs /\ q.dead
      /\ q.working = None /\ q.waiting = <<>> /\ q.output = p.output
  <2>1. <<>> \in Seq(Nat \ {0}) /\ <<>> \in Seq((Nat \ {0}) \cup {None})
    OBVIOUS
  <2> QED BY <2>1 DEF Claude!Session
<1> HIDE DEF q
<1>2. Ahead(q) = 0
  <2>1. Len(q.waiting) = 0 /\ Len(q.waiting) \in Nat
    BY <1>1
  <2> QED BY <2>1, <1>1, AheadOf
<1>3. ASSUME NEW said \in Nat, Due(p, said)
      PROVE  Due(q, said)
  <2>1. /\ p.input \in Seq(Turn \cup {None}) /\ Ahead(p) \in Nat /\ Len(p.pendingPromptSeqs) \in Nat
        /\ said + Ahead(p) \in Nat
    BY SessionFields
  <2>2. said + Ahead(p) <= Len(p.pendingPromptSeqs)
    BY <1>3, <2>1, CountedWithin DEF Due
  <2>3. said <= Len(p.pendingPromptSeqs) /\ said + Ahead(q) = said
    BY <2>1, <2>2, <1>2
  <2>4. Counted(<<>>, Turn, said, Len(p.pendingPromptSeqs))
    BY <2>1, <2>3, CountedNone
  <2> QED BY <1>1, <1>3, <2>3, <2>4 DEF Due
<1>4. Held(q) = {} /\ ~Alive(q)
  BY <1>1 DEF Held, Alive
<1>5. Milder(p, q)
  BY <1>1, <1>3, <1>4 DEF Milder, Awaited
<1> QED BY <1>5 DEF q

\* The loop reads an event: of the first prompt it waits for, or of none.
LEMMA Looping ==
  ASSUME NEW p \in Claude!Session, p.output # <<>>, NEW loop \in {"reading", "draining", "over"},
         NEW seqs, seqs = IF p.pendingPromptSeqs = <<>> THEN <<>> ELSE Tail(p.pendingPromptSeqs),
         misled' \/ Head(p.output).asked \/ p.pendingPromptSeqs = <<>>
  PROVE  Milder(p, [p EXCEPT !.output = Tail(@), !.pendingPromptSeqs = seqs, !.loop = loop])
<1> DEFINE old == p.pendingPromptSeqs
           q == [p EXCEPT !.output = Tail(@), !.pendingPromptSeqs = seqs, !.loop = loop]
           e == Head(p.output)
<1>1. /\ Tail(p.output) \in Seq(Event) /\ e \in Event /\ old \in Seq(Nat) /\ Len(old) \in Nat
      /\ p.output \in Seq(Event) /\ p.input \in Seq(Turn \cup {None}) /\ Ahead(p) \in Nat
      /\ 1 \in DOMAIN p.output /\ e = p.output[1] /\ p.nextPromptSeq \in Nat
  BY SessionFields, TailOf
<1>2. /\ old # <<>> => /\ seqs \in Seq(Nat) /\ Len(seqs) = Len(old) - 1 /\ DOMAIN old = 1..Len(old)
                       /\ DOMAIN seqs = 1..Len(old) - 1
                       /\ \A i \in DOMAIN seqs : i + 1 \in DOMAIN old /\ seqs[i] = old[i + 1]
      /\ old = <<>> => seqs = <<>> /\ seqs \in Seq(Nat)
  <2>1. old # <<>> => seqs = Tail(old)
    OBVIOUS
  <2> HIDE DEF old
  <2> QED BY <2>1, <1>1, TailOf DEF old
<1>3. /\ q \in Claude!Session /\ q.input = p.input /\ q.nextPromptSeq = p.nextPromptSeq
      /\ q.pendingPromptSeqs = seqs /\ q.closed = p.closed /\ q.dead = p.dead
      /\ q.working = p.working /\ q.waiting = p.waiting /\ q.output = Tail(p.output)
  BY <1>1, <1>2 DEF Claude!Session, Event
<1> HIDE DEF old, q, e
<1>4. ASSUME Awaited(p), ~misled'
      PROVE  Awaited(q)
  <2>1. PICK said \in Nat : Due(p, said)
    BY <1>4 DEF Awaited
  <2>2. /\ Counted(Tail(p.output), Wanted, IF e \in Wanted THEN 0 + 1 ELSE 0, said)
        /\ (e \in Wanted => 1 <= said)
    <3>1. Counted(p.output, Wanted, 0, said)
      BY <2>1 DEF Due
    <3>2. Counted(Tail(p.output), Wanted, IF e \in Wanted THEN 0 + 1 ELSE 0, said)
      BY <3>1, <1>1, CountedRead DEF e
    <3>3. e \in Wanted => 0 < said
      BY <3>1, <1>1, CountedWithin
    <3> QED BY <3>2, <3>3
  <2>3. /\ Counted(p.input, Turn, said + Ahead(p), Len(old)) /\ said + Ahead(p) \in Nat
        /\ said + Ahead(p) <= Len(old) /\ Numbered(old, p.nextPromptSeq)
    <3>1. Counted(p.input, Turn, said + Ahead(p), Len(old)) /\ said + Ahead(p) \in Nat
      BY <2>1, <1>1 DEF Due, old
    <3>2. said + Ahead(p) <= Len(old)
      BY <3>1, <1>1, CountedWithin
    <3> QED BY <3>1, <3>2, <1>4 DEF Awaited, old
  <2>4. Ahead(q) = Ahead(p)
    BY <1>3 DEF Ahead
  <2>5. CASE e \in Wanted
    <3>1. 1 <= said /\ 1 <= said + Ahead(p) /\ said - 1 \in Nat /\ Len(old) # 0
      BY <2>2, <2>3, <2>5, <1>1
    <3>2. old # <<>>
      BY <3>1
    <3>3. Counted(Tail(p.output), Wanted, 0, said - 1)
      <4>1. Counted(Tail(p.output), Wanted, 1, said)
        BY <2>2, <2>5
      <4>2. Counted(Tail(p.output), Wanted, 1 - 1, said - 1)
        <5>1. Tail(p.output) \in Seq(Event) /\ said \in Nat /\ 1 \in Nat /\ 1 <= 1
          BY <1>1, <2>1
        <5> QED BY <4>1, <5>1, CountedLess
      <4> QED BY <4>2
    <3>4. Counted(p.input, Turn, (said + Ahead(p)) - 1, Len(old) - 1)
      <4> DEFINE least == said + Ahead(p)
                 most == Len(old)
      <4>1. /\ p.input \in Seq(Turn \cup {None}) /\ least \in Nat /\ most \in Nat
            /\ 1 <= least /\ Counted(p.input, Turn, least, most)
        BY <1>1, <2>3, <3>1
      <4> HIDE DEF least, most
      <4>2. Counted(p.input, Turn, least - 1, most - 1)
        BY <4>1, CountedLess
      <4> QED BY <4>2 DEF least, most
    <3>5. (said + Ahead(p)) - 1 = (said - 1) + Ahead(q)
      BY <2>4, <1>1
    <3>6. Due(q, said - 1)
      BY <3>2, <3>3, <3>4, <3>5, <1>2, <1>3 DEF Due
    <3>7. Numbered(seqs, p.nextPromptSeq)
      <4> SUFFICES ASSUME NEW i \in DOMAIN seqs
                   PROVE  /\ seqs[i] <= p.nextPromptSeq
                          /\ \A j \in DOMAIN seqs : i < j => seqs[i] < seqs[j]
        BY DEF Numbered
      <4> SUFFICES ASSUME NEW j \in DOMAIN seqs, i < j
                   PROVE  seqs[i] < seqs[j]
        BY <1>2, <2>3, <3>2 DEF Numbered
      <4>1. i \in 1..Len(old) - 1 /\ j \in 1..Len(old) - 1 /\ i + 1 < j + 1
        <5>1. DOMAIN seqs = 1..Len(old) - 1
          BY <1>2, <3>2
        <5> QED BY <5>1, <1>1
      <4> QED BY <4>1, <1>2, <2>3, <3>2 DEF Numbered
    <3> QED BY <3>1, <3>6, <3>7, <1>3 DEF Awaited
  <2>6. CASE e \notin Wanted
    <3>1. old = <<>>
      BY <2>6, <1>1, <1>4 DEF Wanted, e, old
    <3>2. Due(q, said)
      BY <2>1, <2>2, <2>4, <2>6, <3>1, <1>2, <1>3 DEF Due, old
    <3> QED BY <3>1, <3>2, <2>3, <1>2, <1>3 DEF Awaited
  <2> QED BY <2>5, <2>6
<1>5. Held(q) = Held(p) /\ Alive(q) = Alive(p)
  BY <1>3 DEF Held, Alive
<1>6. Milder(p, q)
  BY <1>3, <1>4, <1>5 DEF Milder
<1> QED BY <1>6 DEF q

\* A process whose last prompt is being taken off the list has none.
LEMMA LastOne ==
  ASSUME Claude!ClaudeAssumption, NEW p \in Claude!Session, Awaited(p), p.output # <<>>,
         \/ p.pendingPromptSeqs = <<>>
         \/ /\ p.pendingPromptSeqs # <<>> /\ Head(p.pendingPromptSeqs) = p.nextPromptSeq
            /\ Head(p.output).asked
  PROVE  Held(p) = {}
<1> DEFINE seqs == p.pendingPromptSeqs
           e == Head(p.output)
<1>1. PICK said \in Nat : Due(p, said)
  BY DEF Awaited
<1>2. /\ p.output \in Seq(Event) /\ p.input \in Seq(Turn \cup {None}) /\ Ahead(p) \in Nat
      /\ Len(p.waiting) \in Nat /\ p.waiting \in Seq(Turn) /\ p.working \in Nat \cup {None}
      /\ seqs \in Seq(Nat) /\ Len(seqs) \in Nat /\ p.nextPromptSeq \in Nat
      /\ e \in Event /\ 1 \in DOMAIN p.output /\ e = p.output[1]
  BY SessionFields, TailOf
<1> HIDE DEF seqs, e
<1>3. /\ Counted(p.output, Wanted, 0, said) /\ Counted(p.input, Turn, said + Ahead(p), Len(seqs))
      /\ said + Ahead(p) \in Nat
  BY <1>1, <1>2 DEF Due, seqs
<1>4. /\ said + Ahead(p) <= Len(seqs)
      /\ \A i \in DOMAIN p.input : p.input[i] \in Turn => said + Ahead(p) < Len(seqs)
  <2>1. p.input \in Seq(Turn \cup {None}) /\ Len(seqs) \in Nat
    BY <1>2
  <2> QED BY <1>3, <2>1, CountedWithin
<1>5. Len(seqs) <= said
  <2>1. CASE seqs = <<>>
    <3>1. Len(seqs) = 0
      BY <2>1
    <3> QED BY <3>1
  <2>2. CASE seqs # <<>> /\ Head(seqs) = p.nextPromptSeq /\ e.asked
    <3>1. Len(seqs) = 1
      <4> SUFFICES ASSUME Len(seqs) # 1 PROVE FALSE
        OBVIOUS
      <4>1. 1 \in DOMAIN seqs /\ 2 \in DOMAIN seqs /\ seqs[1] \in Nat /\ seqs[2] \in Nat /\ Head(seqs) = seqs[1]
        <5>1. Len(seqs) \in Nat /\ seqs \in Seq(Nat) /\ seqs # <<>>
          BY <1>2, <2>2
        <5>2. Len(seqs) # 0 /\ DOMAIN seqs = 1..Len(seqs) /\ Head(seqs) = seqs[1]
          BY <5>1
        <5>3. 2 <= Len(seqs)
          BY <5>1, <5>2
        <5> QED BY <5>1, <5>2, <5>3
      <4>2. seqs[1] < seqs[2] /\ seqs[2] <= p.nextPromptSeq
        BY <4>1 DEF Awaited, Numbered, seqs
      <4> QED BY <4>1, <4>2, <1>2, <2>2
    <3>2. e \in Wanted
      BY <1>2, <2>2 DEF Wanted
    <3>3. 0 < said
      BY <3>2, <1>2, <1>3, CountedWithin
    <3> QED BY <3>1, <3>3
  <2> QED BY <2>1, <2>2 DEF seqs, e
<1>6. Ahead(p) = 0 /\ ~(said + Ahead(p) < Len(seqs))
  BY <1>2, <1>4, <1>5
<1>7. p.working \in {None, 0} /\ Len(p.waiting) = 0
  BY <1>2, <1>6, AheadOf
<1>8. DOMAIN p.waiting = {}
  BY <1>2, <1>7
<1>9. \A i \in DOMAIN p.input : p.input[i] = None
  BY <1>2, <1>4, <1>6
<1> QED BY <1>7, <1>8, <1>9 DEF Held

-----------------------------------------------------------------------------
(* Steps. *)

\* No session is given a prompt, and none is new.
Gentle ==
  /\ sessions' \in [Numbers -> Claude!Session \cup {None}]
  /\ \A s \in Numbers :
       /\ sessions[s] = None => sessions'[s] = None
       /\ sessions[s] # None => Milder(sessions[s], sessions'[s])

LEMMA GentleNone ==
  ASSUME SessionsOK, UNCHANGED sessions
  PROVE  Gentle
BY DEF Gentle, SessionsOK, Milder

LEMMA GentleOne ==
  ASSUME SessionsOK, NEW s \in Numbers, NEW q, Milder(sessions[s], q), sessions[s] # None,
         sessions' = [sessions EXCEPT ![s] = q]
  PROVE  Gentle /\ sessions'[s] = q
<1>1. sessions' \in [Numbers -> Claude!Session \cup {None}]
  BY DEF SessionsOK, Milder
<1>2. sessions'[s] = q /\ \A r \in Numbers : r # s => sessions'[r] = sessions[r]
  BY DEF SessionsOK
<1>3. \A r \in Numbers : sessions[r] # None => Milder(sessions[r], sessions[r])
  BY SessionAt DEF Milder
<1> QED BY <1>1, <1>2, <1>3 DEF Gentle

\* Closing a session, or its loop goes on.
LEMMA GentleClose ==
  ASSUME SessionsOK, NEW s \in Numbers, sessions[s] # None,
         sessions' = [sessions EXCEPT ![s].closed = TRUE]
  PROVE  Gentle /\ ~Alive(sessions'[s])
<1> DEFINE q == [sessions[s] EXCEPT !.closed = TRUE]
<1>1. q \in Claude!Session /\ q.closed /\ Milder(sessions[s], q)
  <2>1. sessions[s] \in Claude!Session
    BY SessionAt
  <2>2. /\ q \in Claude!Session /\ q.closed
        /\ q.nextPromptSeq = sessions[s].nextPromptSeq /\ q.pendingPromptSeqs = sessions[s].pendingPromptSeqs
        /\ q.input = sessions[s].input /\ q.working = sessions[s].working
        /\ q.waiting = sessions[s].waiting /\ q.output = sessions[s].output
    BY <2>1 DEF Claude!Session
  <2> HIDE DEF q
  <2>3. ~Alive(q)
    BY <2>2 DEF Alive
  <2> QED BY <2>1, <2>2, <2>3, Retains
<1>2. sessions' = [sessions EXCEPT ![s] = q]
  OBVIOUS
<1> HIDE DEF q
<1> QED BY <1>1, <1>2, GentleOne DEF Alive

LEMMA GentleLoop ==
  ASSUME SessionsOK, NEW s \in Numbers, sessions[s] # None, NEW loop \in {"reading", "draining", "over"},
         sessions' = [sessions EXCEPT ![s].loop = loop]
  PROVE  Gentle
<1> DEFINE q == [sessions[s] EXCEPT !.loop = loop]
<1>1. sessions[s] \in Claude!Session
  BY SessionAt
<1>2. /\ q \in Claude!Session /\ q.closed = sessions[s].closed /\ q.dead = sessions[s].dead
      /\ q.nextPromptSeq = sessions[s].nextPromptSeq /\ q.pendingPromptSeqs = sessions[s].pendingPromptSeqs
      /\ q.input = sessions[s].input /\ q.working = sessions[s].working
      /\ q.waiting = sessions[s].waiting /\ q.output = sessions[s].output
  BY <1>1 DEF Claude!Session
<1>3. sessions' = [sessions EXCEPT ![s] = q]
  OBVIOUS
<1> HIDE DEF q
<1>4. Milder(sessions[s], q)
  BY <1>1, <1>2, Retains DEF Alive
<1> QED BY <1>3, <1>4, GentleOne

LEMMA Gently ==
  ASSUME Claude!ClaudeAssumption, SessionsOK, Gentle, misled => misled'
  PROVE  /\ SessionsOK'
         /\ \A s \in Numbers :
              /\ sessions'[s] # None <=> sessions[s] # None
              /\ sessions[s] # None =>
                   /\ sessions'[s].nextPromptSeq = sessions[s].nextPromptSeq
                   /\ Held(sessions'[s]) \subseteq Held(sessions[s])
                   /\ Alive(sessions'[s]) => Alive(sessions[s])
<1>1. \A p \in Claude!Session : p # None
  BY DEF Claude!ClaudeAssumption
<1> QED BY <1>1 DEF Gentle, SessionsOK, Milder

LEMMA GentleInv ==
  ASSUME Claude!ClaudeAssumption, ClaudeInv, Gentle,
         UNCHANGED <<claudeSessions, activeTurn, launch, stopping, prompts, outcome>>,
         trespassed' \in BOOLEAN, trespassed => trespassed', misled' \in BOOLEAN, misled => misled'
  PROVE  ClaudeInv'
<1>1. SessionsOK'
  BY Gently DEF ClaudeInv
<1>2. ClaudeTypeOK'
  BY DEF ClaudeInv, ClaudeTypeOK
<1>3. Entered'
  BY Gently DEF ClaudeInv, ClaudeTypeOK, Entered, Claude!ActiveTurn, Launch
<1>4. Shown'
  BY Gently DEF ClaudeInv, Shown, Shows
<1> QED BY <1>1, <1>2, <1>3, <1>4 DEF ClaudeInv

LEMMA InstanceIs ==
  ASSUME Claude!ClaudeAssumption
  PROVE  /\ MaxPrompts \in Nat /\ MaxSessions \in Nat /\ Claude!Turns = 1..MaxPrompts
         /\ None \notin Numbers /\ None \notin Nat
         /\ \A p \in Claude!Session : p # None
         /\ \A t \in Claude!ActiveTurn : t # None
BY DEF Claude!ClaudeAssumption, Claude!Turns, Numbers

LEMMA StartedAt == Claude!Started = {s \in Numbers : sessions[s] # None}
BY DEF Claude!Started, Numbers

LEMMA BeginInv ==
  ASSUME Claude!ClaudeAssumption, ClaudeInv, NEW loop \in Numbers \cup {None}, prompts < MaxPrompts,
         loop # None => sessions[loop] # None, activeTurn = None, launch = None, stopping = None,
         Claude!BeginLaunch(loop), UNCHANGED <<activeTurn, stopping, outcome, trespassed, misled>>
  PROVE  ClaudeInv'
<1>1. /\ prompts' = prompts + 1 /\ Gentle
      /\ \/ /\ claudeSessions # None /\ claudeSessions' = claudeSessions
            /\ launch' = [turn |-> prompts + 1, session |-> claudeSessions, by |-> loop]
         \/ /\ claudeSessions' = None /\ launch' = [turn |-> prompts + 1, session |-> None, by |-> loop]
            /\ claudeSessions # None => ~Alive(sessions'[claudeSessions])
  <2>1. claudeSessions # None => claudeSessions \in Numbers /\ sessions[claudeSessions] # None
    BY DEF ClaudeInv, ClaudeTypeOK, Entered
  <2>2. CASE claudeSessions # None /\ UNCHANGED <<sessions, claudeSessions>>
             /\ launch' = [turn |-> prompts + 1, session |-> claudeSessions, by |-> loop]
    BY <2>2, GentleNone DEF ClaudeInv, Claude!BeginLaunch
  <2>3. CASE /\ sessions' = IF claudeSessions = None THEN sessions ELSE Claude!Close(claudeSessions)
             /\ claudeSessions' = None
             /\ launch' = [turn |-> prompts + 1, session |-> None, by |-> loop]
    BY <2>1, <2>3, GentleNone, GentleClose DEF ClaudeInv, Claude!BeginLaunch, Claude!Close
  <2> QED BY <2>2, <2>3 DEF Claude!BeginLaunch
<1>2. SessionsOK'
  BY <1>1, Gently DEF ClaudeInv
<1>3. prompts + 1 \in 1..prompts' /\ prompts + 1 \in Claude!Turns /\ prompts' \in 0..MaxPrompts
      /\ prompts \in Nat /\ outcome[prompts + 1] = "none"
  BY <1>1, InstanceIs DEF ClaudeInv, ClaudeTypeOK, Entered
<1>4. launch' \in Launch /\ launch'.turn = prompts + 1 /\ launch'.by = loop
      /\ claudeSessions' = launch'.session
  BY <1>1, <1>3 DEF ClaudeInv, ClaudeTypeOK, Launch
<1>5. ClaudeTypeOK'
  BY <1>1, <1>3, <1>4 DEF ClaudeInv, ClaudeTypeOK
<1>6. Entered'
  <2>1. claudeSessions' # None => claudeSessions' \in Numbers /\ sessions'[claudeSessions'] # None
    BY <1>1, Gently, InstanceIs DEF ClaudeInv, ClaudeTypeOK, Entered
  <2>2. loop # None => sessions'[loop] # None
    BY <1>1, Gently DEF ClaudeInv
  <2>3. \A t \in Claude!Turns : t > prompts' => outcome'[t] = "none"
    BY <1>1, <1>3, InstanceIs DEF ClaudeInv, Entered
  <2> QED BY <1>3, <1>4, <2>1, <2>2, <2>3 DEF Entered
<1>7. Shown'
  <2> SUFFICES ASSUME ~trespassed, NEW s \in Numbers, sessions'[s] # None, Alive(sessions'[s])
               PROVE  Shows(s)'
    BY DEF Shown
  <2>1. sessions[s] # None /\ Alive(sessions[s]) /\ Held(sessions'[s]) \subseteq Held(sessions[s])
    BY <1>1, Gently DEF ClaudeInv
  <2>2. Shows(s)
    BY <2>1 DEF ClaudeInv, Shown
  <2>3. claudeSessions = s /\ s # None
    BY <2>2, InstanceIs DEF Shows
  <2>4. claudeSessions' = s
    BY <1>1, <2>3
  <2>5. \A t \in 1..prompts : t \in 1..prompts'
    BY <1>1, <1>3
  <2> QED BY <2>1, <2>2, <2>4, <2>5 DEF Shows
<1> QED BY <1>2, <1>5, <1>6, <1>7 DEF ClaudeInv

LEMMA LaunchTurnInv ==
  ASSUME Claude!ClaudeAssumption, ClaudeInv, Claude!startTurnForChat
  PROVE  ClaudeInv'
BY BeginInv DEF Claude!startTurnForChat, Claude!Idle

LEMMA StartedInv ==
  ASSUME Claude!ClaudeAssumption, ClaudeInv, Claude!SessionStarted
  PROVE  ClaudeInv'
<1> DEFINE q == Claude!NewSession
<1>1. PICK s \in Numbers : /\ sessions' = [sessions EXCEPT ![s] = q] /\ claudeSessions' = s
                           /\ launch' = [launch EXCEPT !.session = s]
  BY DEF Claude!SessionStarted, Numbers
<1>2. /\ launch # None /\ launch.session = None /\ claudeSessions = None /\ activeTurn = None
      /\ stopping = None /\ UNCHANGED <<activeTurn, stopping, prompts, outcome, trespassed, misled>>
  BY InstanceIs DEF Claude!SessionStarted, ClaudeInv, Entered, ClaudeTypeOK
<1>3. /\ q \in Claude!Session /\ q.pendingPromptSeqs = <<>> /\ q.input = <<>> /\ q.waiting = <<>>
      /\ q.working = None /\ q.output = <<>>
  <2>1. <<>> \in Seq(Nat) /\ <<>> \in Seq(Turn \cup {None}) /\ <<>> \in Seq(Turn) /\ <<>> \in Seq(Event)
    OBVIOUS
  <2> QED BY <2>1 DEF Claude!NewSession, Claude!Session, Event, Turn
<1> HIDE DEF q
<1>4. Awaited(q) /\ Held(q) = {} /\ q # None
  <2>1. Len(q.waiting) = 0 /\ Len(q.pendingPromptSeqs) = 0 /\ Len(q.waiting) \in Nat
    BY <1>3
  <2>2. Ahead(q) = 0
    BY <1>3, <2>1, AheadOf
  <2>3. Due(q, 0)
    <3>1. Counted(<<>>, Wanted, 0, 0) /\ Counted(<<>>, Turn, 0, 0)
      BY CountedNone
    <3> QED BY <1>3, <2>1, <2>2, <3>1 DEF Due
  <2>4. DOMAIN q.pendingPromptSeqs = {} /\ DOMAIN q.waiting = {} /\ DOMAIN q.input = {}
    BY <1>3
  <2> QED BY <1>3, <2>3, <2>4, InstanceIs DEF Awaited, Numbered, Held
<1>5. /\ sessions' \in [Numbers -> Claude!Session \cup {None}] /\ sessions'[s] = q
      /\ \A r \in Numbers : r # s => sessions'[r] = sessions[r]
  BY <1>1, <1>3 DEF ClaudeInv, SessionsOK
<1>6. SessionsOK'
  <2>1. ASSUME ~misled, NEW r \in Numbers, sessions'[r] # None
        PROVE  Awaited(sessions'[r])
    BY <2>1, <1>4, <1>5 DEF ClaudeInv, SessionsOK
  <2> QED BY <2>1, <1>2, <1>5 DEF SessionsOK
<1>7. launch' \in Launch /\ launch'.turn = launch.turn /\ launch'.session = s /\ launch'.by = launch.by
  BY <1>1, <1>2 DEF ClaudeInv, ClaudeTypeOK, Launch
<1>8. ClaudeTypeOK'
  BY <1>1, <1>2, <1>7 DEF ClaudeInv, ClaudeTypeOK
<1>9. Entered'
  <2>1. launch.by # None => launch.by \in Numbers /\ sessions[launch.by] # None
    BY <1>2 DEF ClaudeInv, ClaudeTypeOK, Entered, Launch
  <2> QED BY <1>1, <1>2, <1>4, <1>5, <1>7, <2>1 DEF ClaudeInv, Entered
<1>10. Shown'
  <2> SUFFICES ASSUME ~trespassed, NEW r \in Numbers, sessions'[r] # None, Alive(sessions'[r])
               PROVE  Shows(r)'
    BY <1>2 DEF Shown
  <2>1. r = s
    <3> SUFFICES ASSUME r # s PROVE FALSE
      OBVIOUS
    <3>1. Shows(r)
      BY <1>5 DEF ClaudeInv, Shown
    <3> QED BY <3>1, <1>2, InstanceIs DEF Shows
  <2> QED BY <2>1, <1>1, <1>4, <1>5 DEF Shows
<1> QED BY <1>6, <1>8, <1>9, <1>10 DEF ClaudeInv

\* While a turn is launched all that a process has is cancelled.
LEMMA Superseded ==
  ASSUME ClaudeInv, launch # None, ~trespassed, NEW s \in Numbers, sessions[s] # None, Alive(sessions[s])
  PROVE  misled \/ \A t \in Held(sessions[s]) : t \in 1..prompts /\ outcome[t] = "cancelled" /\ t # launch.turn
BY DEF ClaudeInv, Entered, Shown, Shows

LEMMA ResumesGently ==
  ASSUME Claude!ClaudeAssumption, ClaudeInv, launch # None, sessions' = Claude!LoopResumes(sessions)
  PROVE  Gentle
<1>1. launch.by \in Numbers \cup {None} /\ (launch.by # None => sessions[launch.by] # None)
  BY DEF ClaudeInv, ClaudeTypeOK, Entered, Launch
<1>2. CASE launch.by = None
  BY <1>2, GentleNone DEF Claude!LoopResumes, ClaudeInv
<1>3. CASE launch.by # None
  BY <1>1, <1>3, GentleLoop DEF Claude!LoopResumes, ClaudeInv
<1> QED BY <1>2, <1>3

LEMMA LaunchFailsInv ==
  ASSUME Claude!ClaudeAssumption, ClaudeInv, Claude!LaunchFails
  PROVE  ClaudeInv'
<1>1. /\ launch # None /\ launch' = None /\ activeTurn = None
      /\ outcome' = [outcome EXCEPT ![launch.turn] = "failed"] /\ stopping = None
      /\ UNCHANGED <<claudeSessions, activeTurn, stopping, prompts, trespassed, misled>>
  BY DEF Claude!LaunchFails, ClaudeInv, Entered
<1>2. Gentle
  BY <1>1, ResumesGently DEF Claude!LaunchFails
<1>3. launch.turn \in 1..prompts /\ prompts \in 0..MaxPrompts /\ launch.turn \in Claude!Turns
  <2>1. launch.turn \in 1..prompts /\ prompts \in 0..MaxPrompts
    BY <1>1 DEF ClaudeInv, ClaudeTypeOK, Entered
  <2> QED BY <2>1, InstanceIs
<1>4. /\ outcome' \in [Claude!Turns -> {"none", "failed", "finished", "cancelled"}]
      /\ \A t \in Claude!Turns : t # launch.turn => outcome'[t] = outcome[t]
  BY <1>1, <1>3 DEF ClaudeInv, ClaudeTypeOK
<1>5. SessionsOK'
  BY <1>1, <1>2, Gently DEF ClaudeInv
<1>6. ClaudeTypeOK'
  BY <1>1, <1>4 DEF ClaudeInv, ClaudeTypeOK
<1>7. Entered'
  <2>1. claudeSessions # None => sessions'[claudeSessions] # None
    <3>1. claudeSessions # None => claudeSessions \in Numbers /\ sessions[claudeSessions] # None
      BY DEF ClaudeInv, ClaudeTypeOK, Entered
    <3> QED BY <1>1, <1>2, <3>1, Gently DEF ClaudeInv
  <2>2. \A t \in Claude!Turns : t > prompts => outcome'[t] = "none"
    BY <1>3, <1>4, InstanceIs DEF ClaudeInv, Entered
  <2> QED BY <1>1, <2>1, <2>2 DEF Entered
<1>8. Shown'
  <2> SUFFICES ASSUME ~trespassed, NEW s \in Numbers, sessions'[s] # None, Alive(sessions'[s])
               PROVE  Shows(s)'
    BY <1>1 DEF Shown
  <2>1. sessions[s] # None /\ Alive(sessions[s]) /\ Held(sessions'[s]) \subseteq Held(sessions[s])
    BY <1>1, <1>2, Gently DEF ClaudeInv
  <2>2. claudeSessions = s
    BY <2>1 DEF ClaudeInv, Shown, Shows
  <2>3. misled \/ \A t \in Held(sessions[s]) : t \in 1..prompts /\ outcome[t] = "cancelled" /\ t # launch.turn
    BY <1>1, <2>1, Superseded
  <2>4. 1..prompts \subseteq Claude!Turns
    BY <1>3, InstanceIs
  <2> QED BY <1>1, <1>4, <2>1, <2>2, <2>3, <2>4 DEF Shows
<1> QED BY <1>5, <1>6, <1>7, <1>8 DEF ClaudeInv

\* The session that the prompt is given to, with the prompt.
Prompted(p, turn, seq, q) ==
  /\ seq = p.nextPromptSeq + 1
  /\ q = [p EXCEPT !.nextPromptSeq = seq, !.pendingPromptSeqs = Append(@, seq), !.input = Append(@, turn)]

LEMMA Prompting ==
  ASSUME Claude!ClaudeAssumption, NEW p \in Claude!Session, NEW turn \in Turn,
         NEW seq, NEW q, Prompted(p, turn, seq, q)
  PROVE  /\ q \in Claude!Session /\ (Awaited(p) => Awaited(q)) /\ q.nextPromptSeq = seq
         /\ Alive(q) = Alive(p) /\ Held(q) \subseteq Held(p) \cup {turn}
<1> DEFINE seqs == p.pendingPromptSeqs
<1>1. /\ seq \in Nat /\ seqs \in Seq(Nat) /\ p.nextPromptSeq \in Nat
      /\ seq = p.nextPromptSeq + 1 /\ turn # None /\ turn \in Turn \cup {None}
  BY SessionFields, InstanceIs DEF Prompted, Turn
<1>2. /\ Append(seqs, seq) \in Seq(Nat) /\ Len(Append(seqs, seq)) = Len(seqs) + 1 /\ Len(seqs) \in Nat
      /\ DOMAIN seqs = 1..Len(seqs) /\ DOMAIN Append(seqs, seq) = 1..Len(seqs) + 1
      /\ Append(seqs, seq)[Len(seqs) + 1] = seq
      /\ \A i \in DOMAIN seqs : Append(seqs, seq)[i] = seqs[i] /\ seqs[i] \in Nat
  BY <1>1, AppendOf
<1>3. /\ Append(p.input, turn) \in Seq(Turn \cup {None})
      /\ \A i \in DOMAIN Append(p.input, turn) :
           \/ i \in DOMAIN p.input /\ Append(p.input, turn)[i] = p.input[i]
           \/ Append(p.input, turn)[i] = turn
  BY <1>1, SessionFields, AppendOf
<1>4. /\ q \in Claude!Session /\ q.nextPromptSeq = seq /\ q.pendingPromptSeqs = Append(seqs, seq)
      /\ q.input = Append(p.input, turn) /\ q.closed = p.closed /\ q.dead = p.dead
      /\ q.working = p.working /\ q.waiting = p.waiting /\ q.output = p.output
  BY <1>1, <1>2, <1>3 DEF Claude!Session, Prompted, Turn
<1>5. Ahead(q) = Ahead(p) /\ Ahead(p) \in Nat
  BY <1>4, SessionFields DEF Ahead
<1>6. ASSUME NEW said \in Nat, Due(p, said)
      PROVE  Due(q, said)
  <2>1. Counted(p.input, Turn, said + Ahead(p), Len(seqs)) /\ p.input \in Seq(Turn \cup {None})
        /\ said + Ahead(p) \in Nat
    BY <1>5, <1>6, SessionFields DEF Due
  <2>2. Counted(Append(p.input, turn), Turn, said + Ahead(p), IF turn \in Turn THEN Len(seqs) + 1 ELSE Len(seqs))
    BY <2>1, <1>1, <1>2, CountedAppended
  <2> QED BY <2>2, <1>2, <1>4, <1>5, <1>6 DEF Due
<1>7. ASSUME Awaited(p)
      PROVE  Numbered(Append(seqs, seq), seq)
  <2>0. Numbered(seqs, p.nextPromptSeq)
    BY <1>7 DEF Awaited
  <2> HIDE DEF seqs
  <2> SUFFICES ASSUME NEW i \in DOMAIN Append(seqs, seq)
               PROVE  /\ Append(seqs, seq)[i] <= seq
                      /\ \A j \in DOMAIN Append(seqs, seq) :
                           i < j => Append(seqs, seq)[i] < Append(seqs, seq)[j]
    BY DEF Numbered
  <2>1. CASE i = Len(seqs) + 1
    BY <2>1, <1>1, <1>2
  <2>2. CASE i \in DOMAIN seqs
    <3>1. Append(seqs, seq)[i] = seqs[i] /\ seqs[i] <= p.nextPromptSeq /\ seqs[i] \in Nat
      BY <2>2, <1>2, <2>0 DEF Numbered
    <3>2. ASSUME NEW j \in DOMAIN Append(seqs, seq), i < j
          PROVE  seqs[i] < Append(seqs, seq)[j]
      <4>1. CASE j = Len(seqs) + 1
        BY <4>1, <3>1, <1>1, <1>2
      <4>2. CASE j \in DOMAIN seqs
        BY <4>2, <3>2, <2>2, <2>0, <1>2 DEF Numbered
      <4> QED BY <4>1, <4>2, <1>2
    <3> QED BY <3>1, <3>2, <1>1
  <2> QED BY <2>1, <2>2, <1>2
<1>8. Held(q) \subseteq Held(p) \cup {turn} /\ Alive(q) = Alive(p)
  BY <1>3, <1>4 DEF Held, Alive
<1>9. Awaited(p) => Awaited(q)
  BY <1>4, <1>6, <1>7 DEF Awaited
<1> QED BY <1>4, <1>8, <1>9

LEMMA RegisteredInv ==
  ASSUME Claude!ClaudeAssumption, ClaudeInv, Claude!Register
  PROVE  ClaudeInv'
<1> DEFINE turn == launch.turn
           s == launch.session
<1>1. /\ launch # None /\ s # None /\ launch' = None /\ activeTurn = None /\ stopping = None
      /\ UNCHANGED <<claudeSessions, stopping, prompts, trespassed, misled>>
  BY DEF Claude!Register, ClaudeInv, Entered
<1>2. turn \in 1..prompts /\ prompts \in 0..MaxPrompts /\ turn \in Claude!Turns /\ turn \in Nat /\ turn \in Turn
      /\ 1..prompts \subseteq Claude!Turns
  <2>1. turn \in 1..prompts /\ prompts \in 0..MaxPrompts
    BY <1>1 DEF ClaudeInv, ClaudeTypeOK, Entered
  <2> QED BY <2>1, InstanceIs DEF Turn
<1>3. /\ s \in Numbers /\ sessions[s] # None /\ claudeSessions \in {s, None}
      /\ launch.by \in Numbers \cup {None} /\ (launch.by # None => sessions[launch.by] # None) /\ s \in Nat
      /\ s # None
  <2>1. s \in Numbers
    BY <1>1 DEF ClaudeInv, ClaudeTypeOK, Launch
  <2>2. s \in Nat
    BY <2>1 DEF Numbers
  <2> QED BY <1>1, <2>1, <2>2 DEF ClaudeInv, ClaudeTypeOK, Entered, Launch
<1>4. CASE claudeSessions = None
  <2>1. /\ activeTurn' = [turn |-> turn, session |-> s, seq |-> None, cancelled |-> FALSE]
        /\ outcome' = [outcome EXCEPT ![turn] = "failed"] /\ sessions' = Claude!LoopResumes(sessions)
    BY <1>4 DEF Claude!Register
  <2>2. Gentle
    BY <2>1, <1>1, ResumesGently
  <2> HIDE DEF turn, s
  <2>3. /\ activeTurn' \in Claude!ActiveTurn /\ activeTurn'.turn = turn /\ activeTurn'.session = s
        /\ activeTurn'.seq = None /\ ~activeTurn'.cancelled
    BY <2>1, <1>2, <1>3 DEF Claude!ActiveTurn
  <2>4. /\ outcome' \in [Claude!Turns -> {"none", "failed", "finished", "cancelled"}]
        /\ \A t \in Claude!Turns : t > prompts => outcome'[t] = "none"
    <3>1. \A t \in Claude!Turns : t > prompts => t # turn
      BY <1>2, InstanceIs
    <3> QED BY <2>1, <3>1, <1>2 DEF ClaudeInv, ClaudeTypeOK, Entered
  <2>5. SessionsOK' /\ sessions'[s] # None
    BY <2>2, <1>1, <1>3, Gently DEF ClaudeInv
  <2>6. ClaudeTypeOK'
    BY <1>1, <2>3, <2>4 DEF ClaudeInv, ClaudeTypeOK
  <2>7. Entered'
    BY <1>1, <1>2, <1>3, <1>4, <2>3, <2>4, <2>5 DEF Entered
  <2>8. Shown'
    <3> SUFFICES ASSUME ~trespassed, NEW r \in Numbers, sessions'[r] # None, Alive(sessions'[r])
                 PROVE  FALSE
      BY <1>1 DEF Shown
    <3>1. sessions[r] # None /\ Alive(sessions[r])
      BY <2>2, <1>1, Gently DEF ClaudeInv
    <3> QED BY <3>1, <1>4, InstanceIs DEF ClaudeInv, Shown, Shows
  <2> QED BY <2>5, <2>6, <2>7, <2>8 DEF ClaudeInv
<1>5. CASE claudeSessions = s
  <2> DEFINE p == sessions[s]
             seq == p.nextPromptSeq + 1
             q == [p EXCEPT !.nextPromptSeq = seq, !.pendingPromptSeqs = Append(@, seq), !.input = Append(@, turn)]
             given == [sessions EXCEPT ![s] = q]
  <2>1. /\ activeTurn' = [turn |-> turn, session |-> s, seq |-> seq, cancelled |-> FALSE]
        /\ UNCHANGED outcome
        /\ sessions' = Claude!LoopResumes([sessions EXCEPT
               ![s].nextPromptSeq = seq, ![s].pendingPromptSeqs = Append(@, seq), ![s].input = Append(@, turn)])
    BY <1>1, <1>3, <1>5 DEF Claude!Register
  <2>2. sessions' = Claude!LoopResumes(given)
    BY <2>1, <1>3 DEF ClaudeInv, SessionsOK
  <2>3. p \in Claude!Session /\ (misled \/ Awaited(p)) /\ p.nextPromptSeq \in Nat /\ seq \in Nat
    BY <1>3, SessionAt, SessionFields DEF ClaudeInv
  <2>4. /\ q \in Claude!Session /\ (misled \/ Awaited(q)) /\ q.nextPromptSeq = seq
        /\ Alive(q) = Alive(p) /\ Held(q) \subseteq Held(p) \cup {turn} /\ q # None
    <3>1. Prompted(p, turn, seq, q)
      BY DEF Prompted
    <3> HIDE DEF p, turn, s, seq, q
    <3>2. turn \in Turn
      BY <1>2 DEF turn
    <3>3. /\ q \in Claude!Session /\ (misled \/ Awaited(q)) /\ q.nextPromptSeq = seq
          /\ Alive(q) = Alive(p) /\ Held(q) \subseteq Held(p) \cup {turn}
      BY <2>3, <3>1, <3>2, Prompting
    <3> QED BY <3>3, InstanceIs
  <2> HIDE DEF turn, s, p, seq, q
  <2>5. /\ given \in [Numbers -> Claude!Session \cup {None}] /\ given[s] = q
        /\ \A r \in Numbers : r # s => given[r] = sessions[r]
    BY <2>4, <1>3 DEF ClaudeInv, SessionsOK
  <2>6. \A r \in Numbers : given[r] # None => given[r] \in Claude!Session /\ (misled \/ Awaited(given[r]))
    BY <2>4, <2>5, SessionAt DEF ClaudeInv
  <2> HIDE DEF given
  <2>7. /\ sessions' \in [Numbers -> Claude!Session \cup {None}]
        /\ \A r \in Numbers :
             /\ given[r] = None => sessions'[r] = None
             /\ given[r] # None => Milder(given[r], sessions'[r])
    <3>1. CASE launch.by = None
      BY <3>1, <2>2, <2>5, <2>6 DEF Claude!LoopResumes, Milder
    <3>2. CASE launch.by # None
      <4> DEFINE b == launch.by
                 o == [given[b] EXCEPT !.loop = "reading"]
      <4>1. b \in Numbers /\ given[b] # None /\ given[b] \in Claude!Session
        BY <3>2, <1>3, <2>4, <2>5, <2>6
      <4>2. sessions' = [given EXCEPT ![b] = o]
        BY <3>2, <2>2, <2>5, <4>1 DEF Claude!LoopResumes
      <4>3. /\ o \in Claude!Session /\ o.closed = given[b].closed /\ o.dead = given[b].dead
            /\ o.nextPromptSeq = given[b].nextPromptSeq /\ o.pendingPromptSeqs = given[b].pendingPromptSeqs
            /\ o.input = given[b].input /\ o.working = given[b].working
            /\ o.waiting = given[b].waiting /\ o.output = given[b].output
        BY <4>1 DEF Claude!Session
      <4> HIDE DEF b, o
      <4>4. Milder(given[b], o)
        BY <4>1, <4>3, Retains DEF Alive
      <4>5. sessions'[b] = o /\ \A r \in Numbers : r # b => sessions'[r] = given[r]
        BY <4>1, <4>2, <2>5
      <4>6. \A r \in Numbers : r # b /\ given[r] # None => Milder(given[r], sessions'[r])
        BY <4>5, <2>6 DEF Milder
      <4>7. sessions' \in [Numbers -> Claude!Session \cup {None}]
        BY <4>1, <4>2, <4>3, <2>5
      <4> QED BY <4>1, <4>4, <4>5, <4>6, <4>7
    <3> QED BY <3>1, <3>2
  <2>8. \A r \in Numbers :
          /\ sessions'[r] # None <=> sessions[r] # None
          /\ sessions[r] # None => (misled \/ Awaited(sessions'[r])) /\ (Alive(sessions'[r]) => Alive(sessions[r]))
    <3> SUFFICES ASSUME NEW r \in Numbers
                 PROVE  /\ sessions'[r] # None <=> sessions[r] # None
                        /\ sessions[r] # None => (misled \/ Awaited(sessions'[r]))
                                                 /\ (Alive(sessions'[r]) => Alive(sessions[r]))
      OBVIOUS
    <3>1. given[r] # None <=> sessions[r] # None
      BY <2>4, <2>5, <1>3
    <3>2. sessions[r] # None => (Alive(given[r]) => Alive(sessions[r]))
      BY <2>4, <2>5 DEF p
    <3>3. given[r] # None => sessions'[r] # None
      BY <2>7, InstanceIs DEF Milder
    <3> QED BY <3>1, <3>2, <3>3, <2>6, <2>7, <1>1 DEF Milder
  <2>9. sessions'[s].nextPromptSeq = seq /\ Held(sessions'[s]) \subseteq Held(p) \cup {turn}
    BY <2>4, <2>5, <2>7, <1>3 DEF Milder
  <2>10. /\ activeTurn' \in Claude!ActiveTurn /\ activeTurn'.turn = turn /\ activeTurn'.session = s
         /\ activeTurn'.seq = seq /\ activeTurn' # None /\ ~activeTurn'.cancelled
    <3>1. activeTurn' \in Claude!ActiveTurn /\ activeTurn'.turn = turn /\ activeTurn'.session = s
          /\ activeTurn'.seq = seq /\ ~activeTurn'.cancelled
      BY <2>1, <2>3, <1>2, <1>3 DEF Claude!ActiveTurn
    <3> QED BY <3>1, InstanceIs
  <2>11. SessionsOK'
    BY <2>7, <2>8, <1>1 DEF SessionsOK
  <2>12. ClaudeTypeOK'
    BY <1>1, <2>1, <2>10 DEF ClaudeInv, ClaudeTypeOK
  <2>13. Entered'
    BY <1>1, <1>2, <1>3, <1>5, <2>1, <2>8, <2>9, <2>10 DEF ClaudeInv, Entered
  <2>14. Shown'
    <3> SUFFICES ASSUME ~trespassed, NEW r \in Numbers, sessions'[r] # None, Alive(sessions'[r])
                 PROVE  Shows(r)'
      BY <1>1 DEF Shown
    <3>1. sessions[r] # None /\ Alive(sessions[r])
      BY <2>8
    <3>2. r = s
      BY <3>1, <1>5 DEF ClaudeInv, Shown, Shows
    <3>3. misled \/ \A t \in Held(p) : t \in 1..prompts /\ outcome[t] = "cancelled"
      BY <3>1, <3>2, <1>1, Superseded DEF p
    <3> QED BY <1>1, <1>2, <1>5, <2>1, <2>9, <2>10, <3>2, <3>3 DEF Shows
  <2> QED BY <2>11, <2>12, <2>13, <2>14 DEF ClaudeInv
<1> QED BY <1>3, <1>4, <1>5

LEMMA LoopInv ==
  ASSUME Claude!ClaudeAssumption, ClaudeInv, NEW s \in Claude!Started, Claude!runClaudeSession(s)
  PROVE  ClaudeInv'
<1> DEFINE p == sessions[s]
           event == Head(p.output)
           ends == Claude!ResultEnds(s, event.kind)
           loop == IF ends /\ ~activeTurn.cancelled THEN "draining" ELSE "reading"
           seqs == IF p.pendingPromptSeqs = <<>> THEN <<>> ELSE Tail(p.pendingPromptSeqs)
           q == [p EXCEPT !.output = Tail(@), !.pendingPromptSeqs = seqs, !.loop = loop]
<1>1. s \in Numbers /\ p # None /\ p \in Claude!Session /\ (misled \/ Awaited(p)) /\ p.output # <<>>
  BY StartedAt, SessionAt DEF Claude!runClaudeSession, ClaudeInv
<1>10. /\ Claude!Completed(s) = None <=> p.pendingPromptSeqs = <<>>
       /\ p.pendingPromptSeqs # <<>> => Claude!Completed(s) = Head(p.pendingPromptSeqs)
  <2>1. p.pendingPromptSeqs # <<>> => Head(p.pendingPromptSeqs) \in Nat
    BY <1>1, SessionFields
  <2> QED BY <2>1, InstanceIs DEF Claude!Completed
<1>2. /\ sessions' = [sessions EXCEPT ![s] = q]
      /\ outcome' = IF ends /\ ~activeTurn.cancelled
                    THEN [outcome EXCEPT ![activeTurn.turn] = "finished"] ELSE outcome
      /\ activeTurn' = IF ends THEN None ELSE activeTurn
      /\ trespassed' = (trespassed \/ (ends /\ activeTurn.session # s))
      /\ misled' = (misled \/ (~event.asked /\ Claude!Completed(s) # None))
      /\ UNCHANGED <<claudeSessions, launch, stopping, prompts>>
  <2>1. Claude!PromptsLeft(s, event.kind) = seqs
    BY <1>10 DEF Claude!PromptsLeft
  <2> QED BY <2>1 DEF Claude!runClaudeSession
<1>3. loop \in {"reading", "draining", "over"}
  OBVIOUS
<1>4. Milder(p, q)
  <2>1. misled' \/ event.asked \/ p.pendingPromptSeqs = <<>>
    BY <1>2, <1>10
  <2> QED BY <2>1, <1>1, <1>3, Looping
<1> HIDE DEF loop, q, seqs
<1>5. Gentle
  BY <1>1, <1>2, <1>4, GentleOne DEF ClaudeInv
<1>6. trespassed' \in BOOLEAN /\ (trespassed => trespassed') /\ misled' \in BOOLEAN /\ (misled => misled')
  BY <1>2 DEF ClaudeInv, ClaudeTypeOK
<1>7. CASE ~ends
  BY <1>2, <1>5, <1>6, <1>7, GentleInv
<1>8. CASE ends
  <2> DEFINE t == activeTurn.turn
             r == activeTurn.session
  <2>1. /\ activeTurn # None /\ activeTurn.seq = Claude!Completed(s) /\ activeTurn' = None
        /\ launch = None /\ t \in 1..prompts /\ prompts \in 0..MaxPrompts /\ r \in Numbers
        /\ claudeSessions \in {r, None} /\ (activeTurn.seq # None => activeTurn.seq = sessions[r].nextPromptSeq)
    BY <1>2, <1>8 DEF Claude!ResultEnds, ClaudeInv, ClaudeTypeOK, Entered
  <2>2. t \in Claude!Turns /\ 1..prompts \subseteq Claude!Turns
        /\ \A n \in Claude!Turns : n > prompts => n # t
    BY <2>1, InstanceIs
  <2>3. /\ outcome' \in [Claude!Turns -> {"none", "failed", "finished", "cancelled"}]
        /\ \A n \in Claude!Turns : n # t => outcome'[n] = outcome[n]
    BY <1>2, <2>2 DEF ClaudeInv, ClaudeTypeOK
  <2> HIDE DEF t, ends
  <2>4. SessionsOK'
    BY <1>5, <1>6, Gently DEF ClaudeInv
  <2>5. ClaudeTypeOK'
    BY <1>2, <1>6, <2>1, <2>3 DEF ClaudeInv, ClaudeTypeOK
  <2>6. Entered'
    <3>1. claudeSessions' # None => sessions'[claudeSessions'] # None
      BY <1>2, <1>5, <1>6, Gently DEF ClaudeInv, ClaudeTypeOK, Entered
    <3>2. \A n \in Claude!Turns : n > prompts' => outcome'[n] = "none"
      BY <1>2, <2>2, <2>3 DEF ClaudeInv, Entered
    <3>3. stopping # None => sessions'[stopping] # None
      BY <1>5, <1>6, Gently DEF ClaudeInv, ClaudeTypeOK, Entered
    <3> QED BY <1>2, <2>1, <3>1, <3>2, <3>3 DEF Entered
  <2>7. Shown'
    <3> SUFFICES ASSUME ~trespassed', NEW o \in Numbers, sessions'[o] # None, Alive(sessions'[o])
                 PROVE  Shows(o)'
      BY DEF Shown
    <3>1. ~trespassed /\ r = s
      BY <1>2, <1>8
    <3>2. sessions[o] # None /\ Alive(sessions[o]) /\ Held(sessions'[o]) \subseteq Held(sessions[o])
      BY <1>5, <1>6, Gently DEF ClaudeInv
    <3>3. claudeSessions = o
      BY <3>1, <3>2 DEF ClaudeInv, Shown, Shows
    <3>4. o = s
      BY <2>1, <3>1, <3>3, InstanceIs
    <3>5. misled' \/ Held(sessions[o]) = {}
      <4> SUFFICES ASSUME ~misled' PROVE Held(p) = {}
        BY <3>4
      <4>1. Awaited(p) /\ (event.asked \/ p.pendingPromptSeqs = <<>>)
        BY <1>1, <1>2, <1>10
      <4>2. p.pendingPromptSeqs # <<>> => Head(p.pendingPromptSeqs) = p.nextPromptSeq
        BY <1>10, <2>1, <3>1
      <4> QED BY <4>1, <4>2, <1>1, LastOne
    <3> QED BY <1>2, <3>2, <3>3, <3>5 DEF Shows
  <2> QED BY <2>4, <2>5, <2>6, <2>7 DEF ClaudeInv
<1> QED BY <1>7, <1>8

LEMMA DrainInv ==
  ASSUME Claude!ClaudeAssumption, ClaudeInv, NEW s \in Claude!Started, Claude!Drain(s)
  PROVE  ClaudeInv'
<1>1. s \in Numbers /\ sessions[s] # None /\ UNCHANGED <<activeTurn, stopping, outcome, trespassed, misled>>
  BY StartedAt DEF Claude!Drain
<1>2. CASE queued /\ Claude!Idle /\ prompts < MaxPrompts
  BY <1>1, <1>2, BeginInv DEF Claude!Drain, Claude!Idle
<1>3. CASE ~(queued /\ Claude!Idle /\ prompts < MaxPrompts)
  <2>1. sessions' = [sessions EXCEPT ![s].loop = "reading"] /\ UNCHANGED <<claudeSessions, launch, prompts>>
    BY <1>3 DEF Claude!Drain
  <2>2. Gentle
    BY <1>1, <2>1, GentleLoop DEF ClaudeInv
  <2> QED BY <1>1, <2>1, <2>2, GentleInv DEF ClaudeInv, ClaudeTypeOK
<1> QED BY <1>2, <1>3

LEMMA LoopEndsInv ==
  ASSUME Claude!ClaudeAssumption, ClaudeInv, NEW s \in Claude!Started, Claude!LoopEnds(s)
  PROVE  ClaudeInv'
<1> DEFINE p == sessions[s]
           q == [p EXCEPT !.loop = "over", !.closed = TRUE]
<1>1. s \in Numbers /\ p # None /\ p \in Claude!Session
  BY StartedAt, SessionAt DEF ClaudeInv
<1>2. /\ sessions' = [sessions EXCEPT ![s].loop = "over", ![s].closed = TRUE]
      /\ trespassed' = (trespassed \/ claudeSessions \notin {s, None}
                         \/ (activeTurn # None /\ activeTurn.session # s))
      /\ claudeSessions' = None /\ activeTurn' = None
      /\ outcome' = IF activeTurn # None /\ ~activeTurn.cancelled
                    THEN [outcome EXCEPT ![activeTurn.turn] = "failed"] ELSE outcome
      /\ UNCHANGED <<launch, stopping, prompts, misled>>
  BY DEF Claude!LoopEnds
<1>3. sessions' = [sessions EXCEPT ![s] = q]
  BY <1>1, <1>2 DEF ClaudeInv, SessionsOK
<1>4. /\ q \in Claude!Session /\ q.closed
      /\ q.nextPromptSeq = p.nextPromptSeq /\ q.pendingPromptSeqs = p.pendingPromptSeqs
      /\ q.input = p.input /\ q.working = p.working /\ q.waiting = p.waiting /\ q.output = p.output
  BY <1>1 DEF Claude!Session
<1> HIDE DEF q
<1>5. ~Alive(q)
  BY <1>4 DEF Alive
<1>6. Milder(p, q)
  BY <1>1, <1>4, <1>5, Retains
<1>7. Gentle /\ sessions'[s] = q
  BY <1>1, <1>3, <1>6, GentleOne DEF ClaudeInv
<1>8. SessionsOK'
  BY <1>2, <1>7, Gently DEF ClaudeInv
<1>9. activeTurn # None => activeTurn.turn \in 1..prompts /\ launch = None
  BY DEF ClaudeInv, Entered
<1>10. /\ outcome' \in [Claude!Turns -> {"none", "failed", "finished", "cancelled"}]
       /\ \A t \in Claude!Turns : t > prompts => outcome'[t] = "none"
       /\ launch # None => outcome' = outcome
  <2>1. prompts \in 0..MaxPrompts
    BY DEF ClaudeInv, ClaudeTypeOK
  <2>2. activeTurn # None => /\ activeTurn.turn \in Claude!Turns
                             /\ \A t \in Claude!Turns : t > prompts => t # activeTurn.turn
    BY <1>9, <2>1, InstanceIs
  <2> QED BY <1>2, <1>9, <2>2 DEF ClaudeInv, ClaudeTypeOK, Entered
<1>11. ClaudeTypeOK'
  BY <1>2, <1>10 DEF ClaudeInv, ClaudeTypeOK
<1>12. Entered'
  <2>1. launch # None =>
          /\ launch.session # None => sessions'[launch.session] # None
          /\ launch.by # None => sessions'[launch.by] # None
    BY <1>2, <1>7, Gently DEF ClaudeInv, ClaudeTypeOK, Entered, Launch
  <2>2. stopping # None => sessions'[stopping] # None /\ launch = None
    BY <1>2, <1>7, Gently DEF ClaudeInv, ClaudeTypeOK, Entered
  <2> QED BY <1>2, <1>10, <2>1, <2>2 DEF ClaudeInv, Entered
<1>13. Shown'
  <2> SUFFICES ASSUME ~trespassed', NEW r \in Numbers, sessions'[r] # None, Alive(sessions'[r])
               PROVE  FALSE
    BY DEF Shown
  <2>1. ~trespassed /\ claudeSessions \in {s, None}
    BY <1>2
  <2>2. sessions[r] # None /\ Alive(sessions[r])
    BY <1>2, <1>7, Gently DEF ClaudeInv
  <2>3. claudeSessions = r /\ r # s
    BY <2>1, <2>2, <1>5, <1>7 DEF ClaudeInv, Shown, Shows
  <2> QED BY <2>1, <2>3, InstanceIs
<1> QED BY <1>8, <1>11, <1>12, <1>13 DEF ClaudeInv

LEMMA EscInv ==
  ASSUME Claude!ClaudeAssumption, ClaudeInv, Claude!Esc
  PROVE  ClaudeInv'
<1>1. /\ activeTurn # None /\ activeTurn' = [activeTurn EXCEPT !.cancelled = TRUE]
      /\ outcome' = [outcome EXCEPT ![activeTurn.turn] = "cancelled"]
      /\ stopping' = activeTurn.session
      /\ UNCHANGED <<sessions, claudeSessions, launch, prompts, trespassed, misled>>
  BY DEF Claude!Esc
<1>2. /\ activeTurn' \in Claude!ActiveTurn /\ activeTurn'.turn = activeTurn.turn
      /\ activeTurn'.session = activeTurn.session /\ activeTurn'.seq = activeTurn.seq /\ activeTurn' # None
      /\ activeTurn'.cancelled
  <2>1. activeTurn \in Claude!ActiveTurn
    BY <1>1 DEF ClaudeInv, ClaudeTypeOK
  <2>2. /\ activeTurn' \in Claude!ActiveTurn /\ activeTurn'.turn = activeTurn.turn
        /\ activeTurn'.session = activeTurn.session /\ activeTurn'.seq = activeTurn.seq
        /\ activeTurn'.cancelled
    BY <1>1, <2>1 DEF Claude!ActiveTurn
  <2> QED BY <2>2, InstanceIs
<1>3. /\ activeTurn.turn \in 1..prompts /\ prompts \in 0..MaxPrompts /\ launch = None
      /\ activeTurn.session \in Numbers /\ sessions[activeTurn.session] # None
  BY <1>1 DEF ClaudeInv, ClaudeTypeOK, Entered
<1>4. /\ activeTurn.turn \in Claude!Turns
      /\ \A t \in Claude!Turns : t > prompts => t # activeTurn.turn
      /\ 1..prompts \subseteq Claude!Turns
  BY <1>3, InstanceIs
<1>5. /\ outcome' \in [Claude!Turns -> {"none", "failed", "finished", "cancelled"}]
      /\ \A t \in Claude!Turns : outcome'[t] = IF t = activeTurn.turn THEN "cancelled" ELSE outcome[t]
  BY <1>1, <1>4 DEF ClaudeInv, ClaudeTypeOK
<1>6. SessionsOK'
  BY <1>1 DEF ClaudeInv, SessionsOK
<1>7. ClaudeTypeOK'
  BY <1>1, <1>2, <1>3, <1>5 DEF ClaudeInv, ClaudeTypeOK
<1>8. Entered'
  BY <1>1, <1>2, <1>3, <1>4, <1>5 DEF ClaudeInv, Entered
<1>9. Shown'
  BY <1>1, <1>2, <1>4, <1>5 DEF ClaudeInv, Shown, Shows
<1> QED BY <1>6, <1>7, <1>8, <1>9 DEF ClaudeInv

\* The interrupt is no prompt.
LEMMA StopTurnInv ==
  ASSUME Claude!ClaudeAssumption, ClaudeInv, Claude!stopActiveTurn
  PROVE  ClaudeInv'
<1> DEFINE s == stopping
           p == sessions[s]
           q == [p EXCEPT !.input = Append(@, None)]
<1>1. /\ s # None /\ activeTurn' = None /\ stopping' = None
      /\ sessions' = [sessions EXCEPT ![s].input = Append(@, None)]
      /\ UNCHANGED <<claudeSessions, launch, prompts, outcome, trespassed, misled>>
  BY DEF Claude!stopActiveTurn
<1>2. /\ s \in Numbers /\ p # None /\ launch = None
      /\ activeTurn # None => outcome[activeTurn.turn] = "cancelled"
  BY <1>1 DEF ClaudeInv, ClaudeTypeOK, Entered
<1>3. p \in Claude!Session
  BY <1>2, SessionAt DEF ClaudeInv
<1>4. sessions' = [sessions EXCEPT ![s] = q]
  BY <1>1
<1>5. /\ Append(p.input, None) \in Seq(Turn \cup {None})
      /\ \A i \in DOMAIN Append(p.input, None) :
           \/ i \in DOMAIN p.input /\ Append(p.input, None)[i] = p.input[i]
           \/ Append(p.input, None)[i] = None
  <2>1. p.input \in Seq(Turn \cup {None}) /\ None \in Turn \cup {None}
    BY <1>3, SessionFields
  <2> HIDE DEF p
  <2> QED BY <2>1, AppendOf
<1>6. /\ q \in Claude!Session /\ q.closed = p.closed /\ q.dead = p.dead /\ q.input = Append(p.input, None)
      /\ q.nextPromptSeq = p.nextPromptSeq /\ q.pendingPromptSeqs = p.pendingPromptSeqs
      /\ q.working = p.working /\ q.waiting = p.waiting /\ q.output = p.output
  BY <1>3, <1>5 DEF Claude!Session, Turn
<1> HIDE DEF q, p, s
<1>7. Milder(p, q)
  <2>1. Ahead(q) = Ahead(p) /\ Ahead(p) \in Nat /\ Len(p.pendingPromptSeqs) \in Nat
        /\ p.input \in Seq(Turn \cup {None}) /\ None \notin Turn
    BY <1>3, <1>6, SessionFields, InstanceIs DEF Ahead, Turn
  <2>2. ASSUME NEW said \in Nat, Due(p, said)
        PROVE  Due(q, said)
    <3>1. Counted(p.input, Turn, said + Ahead(p), Len(p.pendingPromptSeqs)) /\ said + Ahead(p) \in Nat
      BY <2>1, <2>2 DEF Due
    <3>2. Counted(Append(p.input, None), Turn, said + Ahead(p),
                  IF None \in Turn THEN Len(p.pendingPromptSeqs) + 1 ELSE Len(p.pendingPromptSeqs))
      <4> DEFINE least == said + Ahead(p)
                 most == Len(p.pendingPromptSeqs)
      <4>1. p.input \in Seq(Turn \cup {None}) /\ least \in Nat /\ most \in Nat /\ None \in Turn \cup {None}
            /\ Counted(p.input, Turn, least, most)
        BY <2>1, <3>1
      <4> HIDE DEF least, most
      <4>2. Counted(Append(p.input, None), Turn, least, IF None \in Turn THEN most + 1 ELSE most)
        BY <4>1, CountedAppended
      <4> QED BY <4>2 DEF least, most
    <3> QED BY <1>6, <2>1, <2>2, <3>2 DEF Due
  <2>4. Awaited(p) => Awaited(q)
    BY <1>6, <2>2 DEF Awaited
  <2>5. Held(q) \subseteq Held(p) /\ Alive(q) = Alive(p)
    BY <1>5, <1>6 DEF Held, Alive
  <2> QED BY <1>6, <2>4, <2>5 DEF Milder
<1>8. Gentle
  BY <1>2, <1>4, <1>7, GentleOne DEF ClaudeInv, p
<1>9. SessionsOK'
  BY <1>1, <1>8, Gently DEF ClaudeInv
<1>10. ClaudeTypeOK'
  BY <1>1 DEF ClaudeInv, ClaudeTypeOK
<1>11. Entered'
  <2>1. claudeSessions' # None => sessions'[claudeSessions'] # None
    BY <1>1, <1>8, Gently DEF ClaudeInv, ClaudeTypeOK, Entered
  <2> QED BY <1>1, <1>2, <2>1 DEF ClaudeInv, Entered
<1>12. Shown'
  <2> SUFFICES ASSUME ~trespassed, NEW r \in Numbers, sessions'[r] # None, Alive(sessions'[r])
               PROVE  Shows(r)'
    BY <1>1 DEF Shown
  <2>1. sessions[r] # None /\ Alive(sessions[r]) /\ Held(sessions'[r]) \subseteq Held(sessions[r])
    BY <1>1, <1>8, Gently DEF ClaudeInv
  <2>2. Shows(r)
    BY <2>1 DEF ClaudeInv, Shown
  <2> QED BY <1>1, <1>2, <2>1, <2>2 DEF Shows
<1> QED BY <1>9, <1>10, <1>11, <1>12 DEF ClaudeInv

LEMMA CloseInv ==
  ASSUME Claude!ClaudeAssumption, ClaudeInv, Claude!closeChat
  PROVE  ClaudeInv'
<1>1. /\ activeTurn = None /\ launch = None /\ claudeSessions # None /\ claudeSessions' = None
      /\ sessions' = [sessions EXCEPT ![claudeSessions].closed = TRUE]
      /\ stopping = None /\ UNCHANGED <<activeTurn, launch, stopping, prompts, outcome, trespassed, misled>>
  BY DEF Claude!closeChat, Claude!Idle, Claude!Close
<1>2. claudeSessions \in Numbers /\ sessions[claudeSessions] # None
  BY <1>1 DEF ClaudeInv, ClaudeTypeOK, Entered
<1>3. Gentle /\ ~Alive(sessions'[claudeSessions])
  BY <1>1, <1>2, GentleClose DEF ClaudeInv
<1>4. SessionsOK'
  BY <1>1, <1>3, Gently DEF ClaudeInv
<1>5. ClaudeTypeOK'
  BY <1>1 DEF ClaudeInv, ClaudeTypeOK
<1>6. Entered'
  BY <1>1 DEF ClaudeInv, Entered
<1>7. Shown'
  <2> SUFFICES ASSUME ~trespassed, NEW r \in Numbers, sessions'[r] # None, Alive(sessions'[r])
               PROVE  FALSE
    BY <1>1 DEF Shown
  <2>1. sessions[r] # None /\ Alive(sessions[r])
    BY <1>1, <1>3, Gently DEF ClaudeInv
  <2>2. claudeSessions = r
    BY <2>1 DEF ClaudeInv, Shown, Shows
  <2> QED BY <2>2, <1>3
<1> QED BY <1>4, <1>5, <1>6, <1>7 DEF ClaudeInv

\* What the process does by itself.
LEMMA ProcessInv ==
  ASSUME Claude!ClaudeAssumption, ClaudeInv, NEW s \in Claude!Started,
         Claude!ReadsInput(s) \/ Claude!Answers(s) \/ Claude!WorksUnasked(s) \/ Claude!Dies(s)
  PROVE  ClaudeInv'
<1> DEFINE p == sessions[s]
<1>1. s \in Numbers /\ p # None /\ p \in Claude!Session
  BY StartedAt, SessionAt DEF ClaudeInv
<1>2. UNCHANGED <<claudeSessions, activeTurn, launch, stopping, prompts, outcome, trespassed, misled>>
  BY DEF Claude!ReadsInput, Claude!Answers, Claude!WorksUnasked, Claude!Dies
<1>3. trespassed \in BOOLEAN /\ misled \in BOOLEAN
  BY DEF ClaudeInv, ClaudeTypeOK
<1>4. CASE Claude!ReadsInput(s)
  <2> DEFINE o == [p EXCEPT !.input = Tail(@)]
             turn == Head(p.input)
             q == IF turn = None
                  THEN IF o.working = None THEN o
                       ELSE Claude!NextPrompt([o EXCEPT !.output = Append(@, Claude!Says(o, "interrupted"))])
                  ELSE IF o.working = None THEN [o EXCEPT !.working = turn]
                       ELSE [o EXCEPT !.waiting = Append(@, turn)]
  <2>1. p.input # <<>> /\ sessions' = [sessions EXCEPT ![s] = q]
    BY <1>4 DEF Claude!ReadsInput
  <2>2. Milder(p, q)
    BY <1>1, <2>1, Reading
  <2> HIDE DEF q
  <2>3. Gentle
    BY <1>1, <2>1, <2>2, GentleOne DEF ClaudeInv
  <2> QED BY <1>2, <1>3, <2>3, GentleInv
<1>5. CASE Claude!Answers(s)
  <2> DEFINE q == Claude!NextPrompt([p EXCEPT !.output = Append(@, Claude!Says(p, "result"))])
  <2>1. p.working # None /\ sessions' = [sessions EXCEPT ![s] = q]
    BY <1>5 DEF Claude!Answers
  <2>2. Milder(p, q)
    BY <1>1, <2>1, NextOf
  <2> HIDE DEF q
  <2>3. Gentle
    BY <1>1, <2>1, <2>2, GentleOne DEF ClaudeInv
  <2> QED BY <1>2, <1>3, <2>3, GentleInv
<1>7. CASE Claude!WorksUnasked(s)
  <2> DEFINE q == [p EXCEPT !.working = 0]
  <2>1. p.working = None /\ sessions' = [sessions EXCEPT ![s] = q]
    BY <1>1, <1>7 DEF Claude!WorksUnasked, ClaudeInv, SessionsOK
  <2>2. Milder(p, q)
    BY <1>1, <2>1, Waking
  <2> HIDE DEF q
  <2>3. Gentle
    BY <1>1, <2>1, <2>2, GentleOne DEF ClaudeInv
  <2> QED BY <1>2, <1>3, <2>3, GentleInv
<1>6. CASE Claude!Dies(s)
  <2> DEFINE q == [p EXCEPT !.dead = TRUE, !.working = None, !.waiting = <<>>, !.input = <<>>]
  <2>1. sessions' = [sessions EXCEPT ![s] = q]
    BY <1>1, <1>6 DEF Claude!Dies, ClaudeInv, SessionsOK
  <2>2. Milder(p, q)
    BY <1>1, Dying
  <2> HIDE DEF q
  <2>3. Gentle
    BY <1>1, <2>1, <2>2, GentleOne DEF ClaudeInv
  <2> QED BY <1>2, <1>3, <2>3, GentleInv
<1> QED BY <1>4, <1>5, <1>6, <1>7

-----------------------------------------------------------------------------
(* The component. *)

LEMMA ClaudeInit ==
  ASSUME Claude!ClaudeAssumption, Claude!Init
  PROVE  ClaudeInv
<1>1. /\ sessions = [s \in Numbers |-> None] /\ claudeSessions = None /\ activeTurn = None
      /\ launch = None /\ stopping = None /\ prompts = 0 /\ trespassed = FALSE /\ misled = FALSE
      /\ outcome = [t \in Claude!Turns |-> "none"]
  BY DEF Claude!Init, Numbers
<1>2. SessionsOK
  BY <1>1 DEF SessionsOK
<1>3. ClaudeTypeOK
  <2>1. outcome \in [Claude!Turns -> {"none", "failed", "finished", "cancelled"}] /\ prompts \in 0..MaxPrompts
    BY <1>1, InstanceIs
  <2> QED BY <1>1, <2>1 DEF ClaudeTypeOK
<1>4. Entered
  BY <1>1 DEF Entered
<1>5. Shown
  BY <1>1 DEF Shown
<1> QED BY <1>2, <1>3, <1>4, <1>5 DEF ClaudeInv

LEMMA ClaudeNext ==
  ASSUME Claude!ClaudeAssumption, ClaudeInv, [Claude!Next]_Claude!vars
  PROVE  ClaudeInv'
<1>1. trespassed \in BOOLEAN /\ misled \in BOOLEAN
  BY DEF ClaudeInv, ClaudeTypeOK
<1>2. ASSUME UNCHANGED <<sessions, claudeSessions, activeTurn, launch, stopping, prompts, outcome, trespassed, misled>>
      PROVE  ClaudeInv'
  <2>1. Gentle
    BY <1>2, GentleNone DEF ClaudeInv
  <2> QED BY <1>1, <1>2, <2>1, GentleInv
<1>3. CASE Claude!startTurnForChat
  BY <1>3, LaunchTurnInv
<1>4. CASE Claude!SessionStarted
  BY <1>4, StartedInv
<1>5. CASE Claude!LaunchFails
  BY <1>5, LaunchFailsInv
<1>6. CASE Claude!Register
  BY <1>6, RegisteredInv
<1>7. CASE Claude!Esc
  BY <1>7, EscInv
<1>8. CASE Claude!stopActiveTurn
  BY <1>8, StopTurnInv
<1>9. CASE Claude!closeChat
  BY <1>9, CloseInv
<1>10. ASSUME NEW s \in Claude!Started, Claude!SessionStep(s)
       PROVE  ClaudeInv'
  <2>1. CASE Claude!runClaudeSession(s)
    BY <1>10, <2>1, LoopInv
  <2>2. CASE Claude!Drain(s)
    BY <1>10, <2>2, DrainInv
  <2>3. CASE Claude!LoopEnds(s)
    BY <1>10, <2>3, LoopEndsInv
  <2>4. CASE Claude!ReadsInput(s) \/ Claude!Answers(s) \/ Claude!WorksUnasked(s) \/ Claude!Dies(s)
    BY <1>10, <2>4, ProcessInv
  <2> QED BY <1>10, <2>1, <2>2, <2>3, <2>4 DEF Claude!SessionStep
<1>11. CASE Claude!enqueue \/ Claude!releaseClaudeRun
  BY <1>2, <1>11 DEF Claude!enqueue, Claude!releaseClaudeRun
<1>12. CASE UNCHANGED Claude!vars
  BY <1>2, <1>12 DEF Claude!vars
<1> QED BY <1>3, <1>4, <1>5, <1>6, <1>7, <1>8, <1>9, <1>10, <1>11, <1>12 DEF Claude!Next

LEMMA CountsAlike == \A S : Claude!Cardinality(S) = Cardinality(S)
BY DEF Claude!Cardinality, Cardinality, Claude!IsFiniteSet, IsFiniteSet

LEMMA ClaudeShows ==
  ASSUME Claude!ClaudeAssumption, ClaudeInv
  PROVE  NoHiddenWork
<1> DEFINE Going == {s \in Claude!Started : Claude!Running(s)}
<1>1. \A s \in Going : s \in Numbers /\ sessions[s] # None /\ Alive(sessions[s])
  BY StartedAt DEF Claude!Running, Alive
<1>2. ~trespassed => \A s \in Going : Shows(s)
  BY <1>1 DEF ClaudeInv, Shown
<1>3. ASSUME ~trespassed
      PROVE  ~(Cardinality(Going) > 1)
  <2>1. Going \subseteq {claudeSessions}
    BY <1>2, <1>3 DEF Shows
  <2>2. IsFiniteSet({claudeSessions}) /\ Cardinality({claudeSessions}) = 1
    BY FS_Singleton
  <2> HIDE DEF Going
  <2>3. IsFiniteSet(Going) /\ Cardinality(Going) <= 1 /\ Cardinality(Going) \in Nat
    BY <2>1, <2>2, FS_Subset, FS_CardinalityType
  <2> QED BY <2>3
<1>4. Claude!OneSession
  BY <1>3, CountsAlike DEF Claude!OneSession
<1>5. Claude!WorkIsShown
  <2> SUFFICES ASSUME NEW s \in Going, sessions[s].working \notin {None, 0}, ~trespassed, ~misled,
                      outcome[sessions[s].working] # "cancelled"
               PROVE  activeTurn # None /\ activeTurn.turn = sessions[s].working
    BY DEF Claude!WorkIsShown
  <2>1. sessions[s].working \in Held(sessions[s])
    BY DEF Held
  <2> QED BY <2>1, <1>2 DEF Shows
<1> QED BY <1>4, <1>5 DEF NoHiddenWork, Claude!NoHiddenWork

\* No work on a prompt goes on that the chat does not show (agent.ts startClaudeTurn,
\* runClaudeSession): for any number of turns and sessions, one process works in the chat's
\* session at a time, unless the end of a replaced session's loop took its successor's entry;
\* and the prompt it works on is the active turn's or was cancelled, unless, beside that, the
\* loop has taken a result that no prompt asked for as the answer to one.
THEOREM ClaudeHidesNothing ==
  ASSUME Claude!ClaudeAssumption
  PROVE  Claude!Spec => []NoHiddenWork
<1>1. Claude!Init => ClaudeInv
  BY ClaudeInit
<1>2. ClaudeInv /\ [Claude!Next]_Claude!vars => ClaudeInv'
  BY ClaudeNext
<1>3. ClaudeInv => NoHiddenWork
  BY ClaudeShows
<1> QED BY <1>1, <1>2, <1>3, PTL DEF Claude!Spec

-----------------------------------------------------------------------------
(***************************************************************************)
(* Updates of a provider's CLI (CliUpdates).                               *)
(***************************************************************************)
(* The inductive invariant. *)

CliTypeOK ==
  /\ cli \in [CLIs -> Cli!Versions] /\ installer \in [Cli!Pids -> CLIs \cup {None, "gone"}]
  /\ journal \in [CLIs -> Cli!Records \cup {None}] /\ records \in [CLIs -> Cli!Records \cup {None}]
  /\ running \in Cli!Runs \cup {None} /\ todo \in SUBSET CLIs
  /\ closed \in BOOLEAN /\ maintenance \in BOOLEAN /\ agents \in BOOLEAN /\ terminal \in BOOLEAN
  /\ kills \in Nat /\ upsets \in Nat /\ installs \in [CLIs -> Nat] /\ blind \in BOOLEAN

\* An update excludes agents, and a recovery goes through the records first.
Apart ==
  /\ agents => running = None /\ todo = {}
  /\ running # None => running.provider \notin todo

\* Where the update of a CLI is, or its recovery.
Place(p) == IF running = None \/ running.provider # p THEN "none"
            ELSE IF running.at = "reserving" /\ running.recovery THEN "recovering" ELSE running.at

Fresh == {"reserving", "consented", "installing", "spawning"}
Past == {"installing", "spawning", "spawned", "waiting", "verifying", "inspecting",
         "succeeded", "failed", "end"}
Early == {"none", "reserving", "consented"}

\* The records of a CLI in memory and on disk, and the installers of a consent.
Sound(at, r, j, n) ==
  /\ at \notin Early => r # None
  /\ r # None => j # None /\ j.attempts <= r.attempts
  /\ j = None => n = 0
  /\ j # None => n <= j.attempts
  /\ at = "consented" => n = 0
  /\ at \in {"installing", "spawning"} => r.phase = "installing" /\ r.pid = None
  /\ at = "installing" => j.attempts < r.attempts
  /\ at = "spawning" => j = r /\ n < j.attempts
  /\ at \in {"verifying", "inspecting"} => r.phase = "verifying" /\ r.pid = None

\* The record is of an installer whose pid was not saved, if there is one.
Unsaved(r) == r.phase = "installing" /\ r.pid = None

\* An installer at work is known to the record in memory, and to the one on disk: by its
\* pid, or as one of which nobody knows whether it runs.
Knows(i, at, r, j, later) ==
  /\ at \notin Fresh /\ r # None
  /\ r.pid = i \/ r.blocked \/ (Unsaved(r) /\ (at = "recovering" \/ (at = "none" /\ later)))
  /\ j.pid = i \/ j.blocked \/ Unsaved(j)

Known(p) == blind \/ \A i \in Cli!Pids : installer[i] = p =>
  /\ Knows(i, Place(p), records[p], journal[p], p \in todo \/ closed)
  /\ agents => records[p].blocked
  /\ \A k \in Cli!Pids : installer[k] = p => i = k

CliInv ==
  /\ CliTypeOK /\ Apart
  /\ \A p \in CLIs : Sound(Place(p), records[p], journal[p], installs[p]) /\ Known(p)

LEMMA NoneIsNothing ==
  ASSUME Cli!CliUpdatesAssumption
  PROVE  /\ None \notin CLIs /\ None \notin Cli!Records /\ None \notin Cli!Runs /\ None \notin Cli!Pids
         /\ "gone" \notin CLIs
BY DEF Cli!CliUpdatesAssumption

-----------------------------------------------------------------------------
(* The step of an update touches what is its own.                          *)

LEMMA StepPlace ==
  ASSUME Cli!CliUpdatesAssumption, CliInv, NEW p \in CLIs, NEW at, Cli!Step(p, at)
  PROVE  /\ running \in Cli!Runs /\ running.provider = p /\ running.at = at
         /\ Place(p) = IF at = "reserving" /\ running.recovery THEN "recovering" ELSE at
         /\ p \notin todo /\ ~agents
BY DEF CliInv, CliTypeOK, Apart, Cli!Step, Place

LEMMA GotoPlace ==
  ASSUME Cli!CliUpdatesAssumption, NEW p, running \in Cli!Runs, running.provider = p,
         NEW to \in {"consented", "installing", "spawning", "spawned", "waiting", "verifying",
                     "inspecting", "succeeded", "failed", "end"},
         Cli!Goto(to)
  PROVE  /\ running' \in Cli!Runs /\ running'.provider = p /\ Place(p)' = to
         /\ maintenance' = maintenance
<1>1. running' = [running EXCEPT !.at = to] /\ maintenance' = maintenance
  BY DEF Cli!Goto
<1>2. running' \in Cli!Runs
  BY <1>1 DEF Cli!Runs
<1>3. running'.provider = running.provider /\ running'.at = to
  BY <1>1 DEF Cli!Runs
<1> QED BY <1>1, <1>2, <1>3, NoneIsNothing DEF Place

LEMMA EndsPlace ==
  ASSUME NEW p, Cli!Ends
  PROVE  running' = None /\ Place(p)' = "none" /\ maintenance' = FALSE
BY DEF Cli!Ends, Place

\* A step of the update of p, which leaves it with the records r and j and n installers.
Takes(p, r, j, n) ==
  /\ (records' = records /\ records[p] = r) \/ records' = [records EXCEPT ![p] = r]
  /\ (journal' = journal /\ journal[p] = j) \/ journal' = [journal EXCEPT ![p] = j]
  /\ (installs' = installs /\ installs[p] = n) \/ installs' = [installs EXCEPT ![p] = n]
  /\ UNCHANGED <<cli, closed, agents, terminal>> /\ todo' \in {todo, todo \ {p}}
  /\ maintenance' \in BOOLEAN /\ blind' \in BOOLEAN /\ (blind => blind')
  /\ kills' = kills /\ upsets' \in {upsets, upsets + 1}
  /\ installer' \in [Cli!Pids -> CLIs \cup {None, "gone"}]
  /\ \A i \in Cli!Pids : installer'[i] = installer[i] \/ (installer'[i] = p /\ installer[i] = None)

\* The step leaves the other CLIs alone.
LEMMA UpdateTakes ==
  ASSUME Cli!CliUpdatesAssumption, CliInv, NEW p \in CLIs, running # None => running.provider = p,
         NEW r \in Cli!Records \cup {None}, NEW j \in Cli!Records \cup {None}, NEW n \in Nat,
         Takes(p, r, j, n),
         running' = None \/ (running' \in Cli!Runs /\ running'.provider = p /\ p \notin todo' /\ ~agents),
         Sound(Place(p)', r, j, n), Known(p)'
  PROVE  CliInv'
<1> USE DEF Takes
<1>1. /\ \A q \in CLIs : records'[q] = IF q = p THEN r ELSE records[q]
      /\ \A q \in CLIs : journal'[q] = IF q = p THEN j ELSE journal[q]
      /\ \A q \in CLIs : installs'[q] = IF q = p THEN n ELSE installs[q]
  BY DEF CliInv, CliTypeOK
<1>2. CliTypeOK'
  <2>1. /\ records' \in [CLIs -> Cli!Records \cup {None}]
        /\ journal' \in [CLIs -> Cli!Records \cup {None}]
        /\ installs' \in [CLIs -> Nat]
    BY DEF CliInv, CliTypeOK
  <2> QED BY <2>1 DEF CliInv, CliTypeOK
<1>3. Apart'
  BY DEF CliInv, Apart
<1>4. ASSUME NEW q \in CLIs, q # p
      PROVE  Sound(Place(q), records[q], journal[q], installs[q])' /\ Known(q)'
  <2>1. Place(q) = "none" /\ Place(q)' = "none"
    BY <1>4 DEF Place
  <2>2. records'[q] = records[q] /\ journal'[q] = journal[q] /\ installs'[q] = installs[q]
    BY <1>1, <1>4
  <2>3. Sound("none", records[q], journal[q], installs[q])
    BY <2>1 DEF CliInv
  <2>4. \A i \in Cli!Pids : installer'[i] = q <=> installer[i] = q
    BY <1>4, NoneIsNothing
  <2>5. (q \in todo' \/ closed') <=> (q \in todo \/ closed)
    BY <1>4
  <2>6. Known(q)
    BY DEF CliInv
  <2>7. Known(q)'
    BY <2>1, <2>2, <2>4, <2>5, <2>6 DEF Known, Knows
  <2> QED BY <2>1, <2>2, <2>3, <2>7
<1>5. Sound(Place(p), records[p], journal[p], installs[p])'
  <2>1. records'[p] = r /\ journal'[p] = j /\ installs'[p] = n
    BY <1>1
  <2> QED BY <2>1
<1> QED BY <1>2, <1>3, <1>4, <1>5 DEF CliInv

\* The installers stay, and what is known of them.
LEMMA KnownStays ==
  ASSUME NEW p, Known(p), installer' = installer, ~agents', blind => blind',
         \A i \in Cli!Pids : installer[i] = p
         /\ Knows(i, Place(p), records[p], journal[p], p \in todo \/ closed)
            => blind' \/ Knows(i, Place(p)', records'[p], journal'[p], p \in todo' \/ closed')
  PROVE  Known(p)'
BY DEF Known

-----------------------------------------------------------------------------
(* start(). *)

\* Nobody works on a CLI whose records allow a start.
LEMMA CliStartInv ==
  ASSUME Cli!CliUpdatesAssumption, CliInv, NEW p \in CLIs, Cli!start(p)
  PROVE  CliInv'
<1>1. /\ running = None /\ ~closed /\ ~Cli!unresolvedInstaller /\ ~agents /\ todo = {}
      /\ running' = [provider |-> p, at |-> "reserving", recovery |-> FALSE] /\ maintenance' = TRUE
      /\ UNCHANGED <<cli, installer, journal, records, todo, closed, agents, terminal,
                     kills, upsets, installs, blind>>
  BY DEF Cli!start, Cli!busy, Cli!Serving, Cli!MayReserve, Cli!world, Cli!idle, Cli!bounds, Cli!history
<1>2. running' \in Cli!Runs /\ running'.provider = p /\ running'.at = "reserving" /\ ~running'.recovery
  BY <1>1 DEF Cli!Runs
<1>3. Place(p) = "none" /\ Place(p)' = "reserving"
  BY <1>1, <1>2, NoneIsNothing DEF Place
<1>4. PICK r \in Cli!Records \cup {None}, j \in Cli!Records \cup {None}, n \in Nat :
        r = records[p] /\ j = journal[p] /\ n = installs[p]
  BY DEF CliInv, CliTypeOK
<1>5. Sound("reserving", r, j, n)
  BY <1>3, <1>4 DEF CliInv, Sound, Early
<1>6. Known(p)'
  <2>1. ASSUME ~blind, NEW i \in Cli!Pids, installer[i] = p PROVE FALSE
    <3>1. Knows(i, "none", r, j, FALSE)
      BY <1>1, <1>3, <1>4, <2>1 DEF CliInv, Known
    <3>2. ~Cli!Pending(p) /\ ~Cli!Blocked(p)
      BY <1>1 DEF Cli!unresolvedInstaller
    <3> QED BY <1>4, <2>1, <3>1, <3>2, NoneIsNothing DEF Knows, Cli!Pending, Cli!Blocked, Cli!cliInstallerAlive
  <2> QED BY <1>1, <2>1 DEF Known
<1>7. Takes(p, r, j, n)
  BY <1>1, <1>4 DEF CliInv, CliTypeOK, Takes
<1> QED BY <1>1, <1>2, <1>3, <1>4, <1>5, <1>6, <1>7, UpdateTakes

\* An update that ends leaves what it has found.
LEMMA EndsInv ==
  ASSUME Cli!CliUpdatesAssumption, CliInv, NEW p \in CLIs, NEW at, Cli!Step(p, at), Cli!Ends,
         at \in {"reserving", "consented", "waiting", "failed", "end"},
         UNCHANGED <<cli, installer, records, todo, closed, agents, terminal, installs, blind>>,
         journal' = journal \/ (at \in Past /\ journal' = [journal EXCEPT ![p] = records[p]]),
         kills' = kills, upsets' \in {upsets, upsets + 1},
         at = "reserving" => ~running.recovery
  PROVE  CliInv'
<1>1. running' = None /\ Place(p)' = "none" /\ maintenance' = FALSE
  BY EndsPlace
<1>2. /\ running.provider = p /\ ~agents /\ p \notin todo
      /\ Place(p) = at
  BY StepPlace
<1>3. PICK r \in Cli!Records \cup {None}, j \in Cli!Records \cup {None}, n \in Nat :
        r = records[p] /\ j = journal[p] /\ n = installs[p]
  BY DEF CliInv, CliTypeOK
<1>4. Sound(at, r, j, n)
  BY <1>2, <1>3 DEF CliInv
<1>5. PICK j1 \in {j, r} :
        /\ journal' = [journal EXCEPT ![p] = j1] \/ (journal' = journal /\ journal[p] = j1)
        /\ at \in {"reserving", "consented"} => j1 = j
  BY <1>3 DEF Past
<1>6. Sound("none", r, j1, n)
  BY <1>3, <1>4, <1>5 DEF Sound, Early, Cli!Records
<1>7. journal'[p] = j1
  BY <1>5 DEF CliInv, CliTypeOK
<1>8. Known(p)'
  <2>1. Known(p)
    BY DEF CliInv
  <2>2. ASSUME NEW i \in Cli!Pids, Knows(i, at, r, j, p \in todo \/ closed)
        PROVE  Knows(i, "none", r, j1, p \in todo' \/ closed')
    BY <1>5, <2>2 DEF Knows, Fresh
  <2> QED BY <1>1, <1>2, <1>3, <1>7, <2>1, <2>2, KnownStays
<1>9. Takes(p, r, j1, n)
  BY <1>1, <1>3, <1>5 DEF CliInv, CliTypeOK, Takes
<1> QED BY <1>1, <1>2, <1>3, <1>5, <1>6, <1>8, <1>9, UpdateTakes

\* An update that goes on, with the records r1 and j1.
LEMMA GoesInv ==
  ASSUME Cli!CliUpdatesAssumption, CliInv, NEW p \in CLIs, NEW at, Cli!Step(p, at),
         NEW r1 \in Cli!Records \cup {None}, NEW j1 \in Cli!Records \cup {None}, NEW n \in Nat,
         Takes(p, r1, j1, n), UNCHANGED <<installer, todo>>,
         NEW to, running' \in Cli!Runs, running'.provider = p, Place(p)' = to,
         Sound(Place(p), records[p], journal[p], installs[p]) => Sound(to, r1, j1, n),
         \A i \in Cli!Pids : installer[i] = p /\ Knows(i, Place(p), records[p], journal[p], closed)
            => blind' \/ Knows(i, to, r1, j1, closed)
  PROVE  CliInv'
<1>1. running.provider = p /\ ~agents /\ p \notin todo
  BY StepPlace
<1>2. Sound(to, r1, j1, n) /\ Known(p)
  BY DEF CliInv
<1>3. records'[p] = r1 /\ journal'[p] = j1
  BY DEF Takes, CliInv, CliTypeOK
<1>4. Known(p)'
  <2>1. (p \in todo \/ closed) = closed /\ (p \in todo' \/ closed') = closed
    BY <1>1 DEF Takes, CliInv, CliTypeOK
  <2>2. ~agents' /\ (blind => blind')
    BY <1>1 DEF Takes
  <2> QED BY <1>2, <1>3, <2>1, <2>2, KnownStays
<1> QED BY <1>1, <1>2, <1>4, UpdateTakes

LEMMA Now ==
  ASSUME CliInv, NEW p \in CLIs
  PROVE  /\ records[p] \in Cli!Records \cup {None} /\ journal[p] \in Cli!Records \cup {None}
         /\ installs[p] \in Nat /\ blind \in BOOLEAN /\ maintenance \in BOOLEAN
         /\ installer \in [Cli!Pids -> CLIs \cup {None, "gone"}]
BY DEF CliInv, CliTypeOK

LEMMA ConsentedInv ==
  ASSUME Cli!CliUpdatesAssumption, CliInv, NEW p \in CLIs, Cli!Consented(p) \/ Cli!StopAllFails(p)
  PROVE  CliInv'
<1>1. Cli!Step(p, "reserving") /\ ~running.recovery
  BY DEF Cli!Consented, Cli!StopAllFails
<1>2. running \in Cli!Runs /\ running.provider = p /\ Place(p) = "reserving"
  BY <1>1, StepPlace
<1>3. /\ UNCHANGED <<cli, installer, journal, records, todo, closed, agents, terminal, blind, kills>>
      /\ upsets' \in {upsets, upsets + 1}
  BY DEF Cli!Consented, Cli!StopAllFails, Cli!world, Cli!idle, Cli!bounds, Cli!history, Cli!Upset
<1>4. CASE Cli!Ends /\ installs' = installs
  BY <1>1, <1>3, <1>4, EndsInv
<1>5. CASE Cli!Goto("consented") /\ installs' = [installs EXCEPT ![p] = 0]
  <2>1. /\ running' \in Cli!Runs /\ running'.provider = p /\ Place(p)' = "consented"
        /\ maintenance' = maintenance
    BY <1>2, <1>5, GotoPlace
  <2>2. PICK r \in Cli!Records \cup {None}, j \in Cli!Records \cup {None} : r = records[p] /\ j = journal[p]
    BY Now
  <2>3. Takes(p, r, j, 0)
    BY <1>3, <1>5, <2>1, <2>2, Now DEF Takes
  <2>4. Sound("reserving", r, j, installs[p]) => Sound("consented", r, j, 0)
    BY DEF Sound, Early, Cli!Records
  <2>5. \A i \in Cli!Pids : ~Knows(i, "reserving", r, j, closed)
    BY DEF Knows, Fresh
  <2> QED BY <1>1, <1>2, <1>3, <2>1, <2>2, <2>3, <2>4, <2>5, GoesInv
<1> QED BY <1>4, <1>5 DEF Cli!Consented, Cli!StopAllFails, Cli!history

LEMMA SavedInv ==
  ASSUME Cli!CliUpdatesAssumption, CliInv, NEW p \in CLIs, Cli!Saved(p)
  PROVE  CliInv'
<1>1. Cli!Step(p, "consented") /\ UNCHANGED <<cli, installer, todo, closed, agents, terminal, installs, blind>>
  BY DEF Cli!Saved, Cli!world, Cli!idle, Cli!history
<1>2. running \in Cli!Runs /\ running.provider = p /\ Place(p) = "consented"
  BY <1>1, StepPlace
<1>3. CASE Cli!Upset /\ Cli!Ends /\ UNCHANGED <<journal, records>>
  BY <1>1, <1>3, EndsInv DEF Cli!Upset
<1>4. CASE /\ journal' = [journal EXCEPT ![p] = Cli!NewRecord]
           /\ records' = [records EXCEPT ![p] = [Cli!NewRecord EXCEPT !.attempts = 1]]
           /\ Cli!Goto("installing") /\ UNCHANGED Cli!bounds
  <2>1. /\ running' \in Cli!Runs /\ running'.provider = p /\ Place(p)' = "installing"
        /\ maintenance' = maintenance
    BY <1>2, <1>4, GotoPlace
  <2>2. /\ Cli!NewRecord \in Cli!Records /\ Cli!NewRecord.phase = "installing" /\ Cli!NewRecord.pid = None
        /\ Cli!NewRecord.attempts = 0
    <3>1. None \in Cli!Pids \cup {None} /\ 0 \in 0..2
      OBVIOUS
    <3> QED BY <3>1 DEF Cli!NewRecord, Cli!Records
  <2>3. PICK j \in Cli!Records : j = Cli!NewRecord
    BY <2>2
  <2>4. PICK r : r = [j EXCEPT !.attempts = 1]
    OBVIOUS
  <2>5. /\ r \in Cli!Records /\ r.phase = "installing" /\ r.pid = None /\ r.attempts = 1
        /\ j.attempts = 0
    BY <2>2, <2>3, <2>4 DEF Cli!Records
  <2>6. PICK n \in Nat : n = installs[p]
    BY Now
  <2>7. Takes(p, r, j, n)
    BY <1>1, <1>4, <2>1, <2>2, <2>3, <2>4, <2>6, Now DEF Takes, Cli!bounds
  <2>8. Sound("consented", records[p], journal[p], n) => Sound("installing", r, j, n)
    BY <2>5, NoneIsNothing DEF Sound, Early
  <2>9. \A i \in Cli!Pids : ~Knows(i, "consented", records[p], journal[p], closed)
    BY DEF Knows, Fresh
  <2> QED BY <1>1, <1>2, <2>1, <2>5, <2>6, <2>7, <2>8, <2>9, GoesInv
<1> QED BY <1>3, <1>4 DEF Cli!Saved

-----------------------------------------------------------------------------
(* perform() and recoverInterrupted(). *)

LEMMA FailedRecord ==
  ASSUME NEW r \in Cli!Records, NEW f, f = [r EXCEPT !.phase = "failed"]
  PROVE  /\ f \in Cli!Records /\ f.phase = "failed" /\ f.pid = r.pid /\ f.blocked = r.blocked
         /\ f.attempts = r.attempts
BY DEF Cli!Records

LEMMA VerifyingRecord ==
  ASSUME NEW r \in Cli!Records, NEW f, f = Cli!Verifying(r)
  PROVE  /\ f \in Cli!Records /\ f.phase = "verifying" /\ f.pid = None /\ f.blocked = r.blocked
         /\ f.attempts = r.attempts
<1>1. None \in Cli!Pids \cup {None}
  OBVIOUS
<1> QED BY <1>1 DEF Cli!Records, Cli!Verifying

\* The record of an update that is past its reservation.
LEMMA Own ==
  ASSUME Cli!CliUpdatesAssumption, CliInv, NEW p \in CLIs, Place(p) \notin Early
  PROVE  records[p] \in Cli!Records /\ journal[p] \in Cli!Records
BY Now DEF CliInv, Sound

\* What an update that failed does with its record.
LEMMA FailsInv ==
  ASSUME Cli!CliUpdatesAssumption, CliInv, NEW p \in CLIs, NEW at \in Past, Cli!Step(p, at),
         records' = [records EXCEPT ![p].phase = "failed"], Cli!Goto("failed"),
         UNCHANGED <<cli, installer, journal, todo, closed, agents, terminal, installs, blind, kills>>,
         upsets' \in {upsets, upsets + 1}
  PROVE  CliInv'
<1>1. running \in Cli!Runs /\ running.provider = p /\ Place(p) = at
  BY StepPlace DEF Past
<1>2. /\ running' \in Cli!Runs /\ running'.provider = p /\ Place(p)' = "failed"
      /\ maintenance' = maintenance
  BY <1>1, GotoPlace
<1>3. PICK r \in Cli!Records, j \in Cli!Records, n \in Nat : r = records[p] /\ j = journal[p] /\ n = installs[p]
  BY <1>1, Own, Now DEF Past, Early
<1>4. PICK f : f = [r EXCEPT !.phase = "failed"]
  OBVIOUS
<1>5. /\ f \in Cli!Records /\ f.phase = "failed" /\ f.pid = r.pid /\ f.blocked = r.blocked
      /\ f.attempts = r.attempts
  BY <1>4, FailedRecord
<1>6. Takes(p, f, j, n)
  BY <1>2, <1>3, <1>4, Now DEF Takes
<1>7. Sound(at, r, j, n) => Sound("failed", f, j, n)
  BY <1>5, NoneIsNothing DEF Sound, Early, Past
<1>8. \A i \in Cli!Pids : Knows(i, at, r, j, closed) => Knows(i, "failed", f, j, closed)
  BY <1>5, NoneIsNothing DEF Knows, Fresh, Past
<1> QED BY <1>1, <1>2, <1>3, <1>5, <1>6, <1>7, <1>8, GoesInv

LEMMA SavesInv ==
  ASSUME Cli!CliUpdatesAssumption, CliInv, NEW p \in CLIs, Cli!Saves(p)
  PROVE  CliInv'
<1>1. PICK at, next :
        /\ <<at, next>> \in {<<"installing", "spawning">>, <<"verifying", "inspecting">>, <<"succeeded", "end">>}
        /\ Cli!Step(p, at) /\ Cli!Save(p, next)
  BY DEF Cli!Saves
<1>2. /\ \/ at = "installing" /\ next = "spawning"
         \/ at = "verifying" /\ next = "inspecting"
         \/ at = "succeeded" /\ next = "end"
      /\ at \in Past
  BY <1>1 DEF Past
<1>3. running \in Cli!Runs /\ running.provider = p /\ Place(p) = at
  BY <1>1, <1>2, StepPlace
<1>4. UNCHANGED <<cli, installer, todo, closed, agents, terminal, installs, blind>>
  BY DEF Cli!Saves, Cli!world, Cli!idle, Cli!history
<1>5. CASE /\ Cli!Upset /\ records' = [records EXCEPT ![p].phase = "failed"] /\ Cli!Goto("failed")
           /\ UNCHANGED journal
  BY <1>1, <1>2, <1>4, <1>5, FailsInv DEF Cli!Upset
<1>6. CASE journal' = [journal EXCEPT ![p] = records[p]] /\ Cli!Goto(next) /\ UNCHANGED <<records, Cli!bounds>>
  <2>1. /\ running' \in Cli!Runs /\ running'.provider = p /\ Place(p)' = next
        /\ maintenance' = maintenance
    BY <1>2, <1>3, <1>6, GotoPlace
  <2>2. PICK r \in Cli!Records, j \in Cli!Records, n \in Nat : r = records[p] /\ j = journal[p]
        /\ n = installs[p]
    BY <1>2, <1>3, Own, Now DEF Past, Early
  <2>3. Takes(p, r, r, n)
    BY <1>4, <1>6, <2>1, <2>2, Now DEF Takes, Cli!bounds
  <2>4. Sound(at, r, j, n)
    BY <1>3, <2>2 DEF CliInv
  <2>5. Sound(next, r, r, n)
    BY <1>2, <2>4 DEF Sound, Early, Cli!Records
  <2>6. \A i \in Cli!Pids : Knows(i, at, r, j, closed) => Knows(i, next, r, r, closed)
    BY <1>2, <2>4 DEF Knows, Fresh
  <2> QED BY <1>1, <1>3, <1>4, <2>1, <2>2, <2>3, <2>5, <2>6, GoesInv
<1> QED BY <1>1, <1>5, <1>6 DEF Cli!Save

\* The installer is the only one, and its pid is in memory.
LEMMA CliSpawnInv ==
  ASSUME Cli!CliUpdatesAssumption, CliInv, NEW p \in CLIs, Cli!Spawn(p)
  PROVE  CliInv'
<1>1. Cli!Step(p, "spawning") /\ UNCHANGED <<cli, journal, todo, closed, agents, terminal, blind>>
  BY DEF Cli!Spawn, Cli!idle
<1>2. running \in Cli!Runs /\ running.provider = p /\ Place(p) = "spawning" /\ ~agents /\ p \notin todo
  BY <1>1, StepPlace
<1>3. PICK r \in Cli!Records, j \in Cli!Records, n \in Nat : r = records[p] /\ j = journal[p] /\ n = installs[p]
  BY <1>2, Own, Now DEF Early
<1>4. Sound("spawning", r, j, n)
  BY <1>2, <1>3 DEF CliInv
<1>5. ASSUME NEW i \in Cli!Pids, installer[i] = None, installer' = [installer EXCEPT ![i] = p],
             records' = [records EXCEPT ![p].pid = i], installs' = [installs EXCEPT ![p] = @ + 1],
             Cli!Goto("spawned"), UNCHANGED Cli!bounds
      PROVE  CliInv'
  <2>1. /\ running' \in Cli!Runs /\ running'.provider = p /\ Place(p)' = "spawned"
        /\ maintenance' = maintenance
    BY <1>2, <1>5, GotoPlace
  <2>2. PICK f : f = [r EXCEPT !.pid = i]
    OBVIOUS
  <2>3. f \in Cli!Records /\ f.pid = i /\ f.attempts = r.attempts
    BY <2>2 DEF Cli!Records
  <2>4. Takes(p, f, j, n + 1)
    BY <1>1, <1>3, <1>5, <2>1, <2>2, Now DEF Takes, Cli!bounds
  <2>5. Sound("spawned", f, j, n + 1)
    BY <1>4, <2>3, NoneIsNothing DEF Sound, Early, Cli!Records
  <2>6. Known(p)'
    <3>1. blind \/ \A k \in Cli!Pids : installer[k] # p
      BY <1>2 DEF CliInv, Known, Knows, Fresh
    <3>2. records'[p] = f
      BY <1>3, <1>5, <2>2, Now DEF CliInv, CliTypeOK
    <3>3. blind \/ \A k \in Cli!Pids : installer'[k] = p => k = i
      BY <1>5, <3>1, Now
    <3>4. Knows(i, "spawned", f, j, (p \in todo \/ closed)')
      BY <1>4, <2>3, NoneIsNothing DEF Knows, Fresh, Sound, Unsaved
    <3> QED BY <1>1, <1>2, <1>3, <2>1, <3>2, <3>3, <3>4 DEF Known
  <2>7. p \notin todo' /\ n + 1 \in Nat
    BY <1>1, <1>2
  <2> QED BY <1>2, <2>1, <2>3, <2>4, <2>5, <2>6, <2>7, UpdateTakes
<1>6. CASE /\ Cli!Goto("waiting") /\ UNCHANGED <<installer, records, installs>>
           /\ Cli!Upset \/ UNCHANGED Cli!bounds
  <2>1. /\ running' \in Cli!Runs /\ running'.provider = p /\ Place(p)' = "waiting"
        /\ maintenance' = maintenance
    BY <1>2, <1>6, GotoPlace
  <2>2. Takes(p, r, j, n)
    BY <1>1, <1>3, <1>6, <2>1, Now DEF Takes, Cli!bounds, Cli!Upset
  <2>3. Sound("waiting", r, j, n)
    BY <1>4 DEF Sound, Early
  <2>4. \A i \in Cli!Pids : ~Knows(i, "spawning", r, j, closed)
    BY DEF Knows, Fresh
  <2> QED BY <1>1, <1>2, <1>3, <1>6, <2>1, <2>2, <2>3, <2>4, GoesInv
<1> QED BY <1>5, <1>6 DEF Cli!Spawn

LEMMA WaitingInv ==
  ASSUME Cli!CliUpdatesAssumption, CliInv, NEW p \in CLIs,
         Cli!onSpawn(p) \/ Cli!InstallerDone(p) \/ Cli!Waited(p)
  PROVE  CliInv'
<1>1. PICK r, j, n : r = records[p] /\ j = journal[p] /\ n = installs[p]
  OBVIOUS
<1>2. CASE Cli!onSpawn(p)
  <2>1. /\ Cli!Step(p, "spawned") /\ Cli!Goto("waiting")
        /\ UNCHANGED <<cli, installer, records, todo, closed, agents, terminal, installs, blind>>
    BY <1>2 DEF Cli!onSpawn, Cli!world, Cli!idle, Cli!history
  <2>2. running \in Cli!Runs /\ running.provider = p /\ Place(p) = "spawned"
    BY <2>1, StepPlace
  <2>3. /\ running' \in Cli!Runs /\ running'.provider = p /\ Place(p)' = "waiting"
        /\ maintenance' = maintenance
    BY <2>1, <2>2, GotoPlace
  <2>4. r \in Cli!Records /\ j \in Cli!Records /\ n \in Nat /\ Sound("spawned", r, j, n)
    BY <1>1, <2>2, Own, Now DEF Early, CliInv
  <2>5. PICK j1 \in {j, r} : /\ journal' = [journal EXCEPT ![p] = j1] \/ (journal' = journal /\ j1 = j)
                             /\ Cli!Upset \/ UNCHANGED Cli!bounds
    BY <1>1, <1>2 DEF Cli!onSpawn
  <2>6. Takes(p, r, j1, n)
    BY <1>1, <2>1, <2>3, <2>5, Now DEF Takes, Cli!bounds, Cli!Upset
  <2>7. Sound("waiting", r, j1, n)
    BY <2>4, <2>5 DEF Sound, Early, Cli!Records
  <2>8. \A i \in Cli!Pids : Knows(i, "spawned", r, j, closed) => Knows(i, "waiting", r, j1, closed)
    BY <2>5 DEF Knows, Fresh
  <2> QED BY <1>1, <2>1, <2>2, <2>3, <2>4, <2>5, <2>6, <2>7, <2>8, GoesInv
<1>3. CASE Cli!InstallerDone(p) \/ (Cli!Waited(p) /\ ~Cli!Ends)
  <2>1. /\ Cli!Step(p, "waiting") /\ ~Cli!Pending(p) /\ Cli!Goto("verifying")
        /\ records' = [records EXCEPT ![p] = Cli!Verifying(@)]
        /\ UNCHANGED <<cli, installer, journal, todo, closed, agents, terminal, Cli!bounds, installs, blind>>
    BY <1>3 DEF Cli!InstallerDone, Cli!Waited, Cli!world, Cli!idle, Cli!history
  <2>2. running \in Cli!Runs /\ running.provider = p /\ Place(p) = "waiting"
    BY <2>1, StepPlace
  <2>3. /\ running' \in Cli!Runs /\ running'.provider = p /\ Place(p)' = "verifying"
        /\ maintenance' = maintenance
    BY <2>1, <2>2, GotoPlace
  <2>4. r \in Cli!Records /\ j \in Cli!Records /\ n \in Nat /\ Sound("waiting", r, j, n)
    BY <1>1, <2>2, Own, Now DEF Early, CliInv
  <2>5. PICK f : f = Cli!Verifying(r)
    OBVIOUS
  <2>6. /\ f \in Cli!Records /\ f.phase = "verifying" /\ f.pid = None /\ f.blocked = r.blocked
        /\ f.attempts = r.attempts
    BY <2>4, <2>5, VerifyingRecord
  <2>7. records' = [records EXCEPT ![p] = f]
    BY <1>1, <2>1, <2>5
  <2>8. Takes(p, f, j, n)
    BY <1>1, <2>1, <2>3, <2>7, Now DEF Takes, Cli!bounds
  <2>9. Sound("verifying", f, j, n)
    BY <2>4, <2>6, NoneIsNothing DEF Sound, Early
  <2>10. \A i \in Cli!Pids : installer[i] = p /\ Knows(i, "waiting", r, j, closed)
         => Knows(i, "verifying", f, j, closed)
    BY <1>1, <2>1, <2>6, NoneIsNothing DEF Knows, Fresh, Cli!Pending, Cli!cliInstallerAlive
  <2> QED BY <1>1, <2>1, <2>2, <2>3, <2>4, <2>6, <2>8, <2>9, <2>10, GoesInv
<1>4. CASE Cli!Waited(p) /\ Cli!Ends
  <2>1. Cli!Step(p, "waiting")
    BY <1>4 DEF Cli!Waited
  <2>2. running \in Cli!Runs
    BY <2>1, StepPlace
  <2>3. /\ UNCHANGED <<cli, installer, records, journal, todo, closed, agents, terminal, Cli!bounds, installs, blind>>
    <3>1. ~Cli!Goto("verifying")
      BY <1>4, <2>2, NoneIsNothing DEF Cli!Goto, Cli!Ends, Cli!Runs
    <3> QED BY <1>4, <3>1 DEF Cli!Waited, Cli!world, Cli!idle, Cli!history
  <2> QED BY <1>4, <2>1, <2>3, EndsInv DEF Cli!bounds
<1> QED BY <1>2, <1>3, <1>4

\* A CLI is repaired only when no installer is known, and taken for finished only when
\* none is at work or that is noted.
LEMMA InspectedInv ==
  ASSUME Cli!CliUpdatesAssumption, CliInv, NEW p \in CLIs, Cli!Inspected(p)
  PROVE  CliInv'
<1>1. /\ Cli!Step(p, "inspecting")
      /\ UNCHANGED <<cli, installer, journal, todo, closed, agents, terminal, installs>>
  BY DEF Cli!Inspected, Cli!world, Cli!idle
<1>2. running \in Cli!Runs /\ running.provider = p /\ Place(p) = "inspecting" /\ ~agents
  BY <1>1, StepPlace
<1>3. PICK r \in Cli!Records, j \in Cli!Records, n \in Nat : r = records[p] /\ j = journal[p] /\ n = installs[p]
  BY <1>2, Own, Now DEF Early
<1>4. Sound("inspecting", r, j, n)
  BY <1>2, <1>3 DEF CliInv
<1>5. CASE records' = [records EXCEPT ![p].phase = "failed"] /\ Cli!Goto("failed")
  <2>1. UNCHANGED <<blind, kills>> /\ upsets' \in {upsets, upsets + 1}
    <3>1. ~Cli!Goto("succeeded")
      BY <1>2, <1>5 DEF Cli!Goto, Cli!Runs
    <3>2. Cli!MayRetry(p) => running' # [running EXCEPT !.at = "installing", !.recovery = FALSE]
      BY <1>2, <1>5 DEF Cli!Goto, Cli!Runs
    <3> QED BY <3>1, <3>2 DEF Cli!Inspected, Cli!bounds, Cli!Upset
  <2> QED BY <1>1, <1>5, <2>1, FailsInv DEF Past
<1>6. CASE /\ Cli!Goto("succeeded") /\ UNCHANGED Cli!bounds
           /\ blind' = (blind \/ \E i \in Cli!Pids : installer[i] = p)
           /\ records' = [records EXCEPT ![p].phase = "succeeded", ![p].blocked = FALSE]
  <2>1. /\ running' \in Cli!Runs /\ running'.provider = p /\ Place(p)' = "succeeded"
        /\ maintenance' = maintenance
    BY <1>2, <1>6, GotoPlace
  <2>2. PICK f : f = [r EXCEPT !.phase = "succeeded", !.blocked = FALSE]
    OBVIOUS
  <2>3. f \in Cli!Records /\ f.attempts = r.attempts
    BY <2>2 DEF Cli!Records
  <2>4. records' = [records EXCEPT ![p] = f]
    BY <1>3, <1>6, <2>2
  <2>5. Takes(p, f, j, n)
    BY <1>1, <1>3, <1>6, <2>1, <2>4, Now DEF Takes, Cli!bounds
  <2>6. Sound("succeeded", f, j, n)
    BY <1>4, <2>3, NoneIsNothing DEF Sound, Early
  <2>7. \A i \in Cli!Pids : installer[i] = p => blind'
    BY <1>6
  <2> QED BY <1>1, <1>2, <1>3, <2>1, <2>3, <2>5, <2>6, <2>7, GoesInv
<1>7. CASE /\ Cli!MayRetry(p) /\ UNCHANGED <<Cli!bounds, blind>>
           /\ records' = [records EXCEPT ![p].phase = "installing", ![p].attempts = @ + 1]
           /\ running' = [running EXCEPT !.at = "installing", !.recovery = FALSE] /\ UNCHANGED maintenance
  <2>1. running' \in Cli!Runs /\ running'.provider = p /\ running'.at = "installing"
    BY <1>2, <1>7 DEF Cli!Runs
  <2>2. Place(p)' = "installing"
    BY <2>1, NoneIsNothing DEF Place
  <2>3. PICK f : f = [r EXCEPT !.phase = "installing", !.attempts = @ + 1]
    OBVIOUS
  <2>4. r.attempts < 2 /\ ~r.blocked
    BY <1>3, <1>7, NoneIsNothing DEF Cli!MayRetry, Cli!Blocked
  <2>5. f \in Cli!Records /\ f.attempts = r.attempts + 1 /\ f.phase = "installing" /\ f.pid = r.pid
    <3>1. PICK a \in 0..2 : a = r.attempts + 1
      BY <2>4 DEF Cli!Records
    <3>2. f = [r EXCEPT !.phase = "installing", !.attempts = a]
      BY <2>3, <3>1
    <3>3. f \in Cli!Records /\ f.attempts = a /\ f.phase = "installing" /\ f.pid = r.pid
      BY <3>2 DEF Cli!Records
    <3> QED BY <3>1, <3>3
  <2>6. records' = [records EXCEPT ![p] = f]
    BY <1>3, <1>7, <2>3
  <2>7. Takes(p, f, j, n)
    BY <1>1, <1>3, <1>7, <2>6, Now DEF Takes, Cli!bounds
  <2>8. Sound("installing", f, j, n)
    BY <1>4, <2>5, NoneIsNothing DEF Sound, Early, Cli!Records
  <2>9. \A i \in Cli!Pids : ~Knows(i, "inspecting", r, j, closed)
    BY <1>4, <2>4, NoneIsNothing DEF Knows, Sound
  <2> QED BY <1>1, <1>2, <1>3, <2>1, <2>2, <2>5, <2>7, <2>8, <2>9, GoesInv
<1> QED BY <1>5, <1>6, <1>7 DEF Cli!Inspected

LEMMA FinishInv ==
  ASSUME Cli!CliUpdatesAssumption, CliInv, NEW p \in CLIs, Cli!Finish(p)
  PROVE  CliInv'
<1>1. PICK at \in {"end", "failed"} : Cli!Step(p, at)
  BY DEF Cli!Finish
<1>2. /\ Cli!Ends /\ UNCHANGED <<cli, installer, records, todo, closed, agents, terminal, installs, blind>>
      /\ journal' = journal \/ journal' = [journal EXCEPT ![p] = records[p]]
      /\ kills' = kills /\ upsets' \in {upsets, upsets + 1}
  BY DEF Cli!Finish, Cli!world, Cli!idle, Cli!history, Cli!bounds, Cli!Upset
<1> QED BY <1>1, <1>2, EndsInv DEF Past

\* A recovery of a record, or none.
LEMMA RecoverInv ==
  ASSUME Cli!CliUpdatesAssumption, CliInv, NEW p \in CLIs, Cli!recover(p)
  PROVE  CliInv'
<1>1. /\ running = None /\ p \in todo /\ todo' = todo \ {p} /\ ~agents
      /\ UNCHANGED <<cli, installer, journal, closed, agents, terminal, Cli!bounds, installs>>
  BY DEF Cli!recover, Cli!world, Cli!idle, CliInv, Apart
<1>2. Place(p) = "none"
  BY <1>1 DEF Place
<1>3. PICK r \in Cli!Records \cup {None}, j \in Cli!Records \cup {None}, n \in Nat :
        r = records[p] /\ j = journal[p] /\ n = installs[p]
  BY Now
<1>4. Sound("none", r, j, n) /\ Known(p)
  BY <1>2, <1>3 DEF CliInv
<1>5. CASE (closed \/ ~Cli!Interrupted(p)) /\ UNCHANGED <<records, running, maintenance, blind>>
  <2>1. Place(p)' = "none" /\ running' = None
    BY <1>1, <1>5 DEF Place
  <2>2. Takes(p, r, j, n)
    BY <1>1, <1>3, <1>5, Now DEF Takes, Cli!bounds
  <2>3. \A i \in Cli!Pids : Knows(i, "none", r, j, p \in todo \/ closed)
        => Knows(i, "none", r, j, p \in todo' \/ closed')
    BY <1>1, <1>3, <1>5 DEF Knows, Unsaved, Cli!Interrupted
  <2>4. Known(p)'
    BY <1>1, <1>2, <1>3, <1>4, <1>5, <2>1, <2>3, KnownStays
  <2> QED BY <1>1, <1>3, <1>4, <2>1, <2>2, <2>4, UpdateTakes
<1>6. ASSUME NEW at, NEW f \in Cli!Records, ~closed, Cli!Interrupted(p),
             running' = [provider |-> p, at |-> at, recovery |-> TRUE],
             \/ at = "reserving" /\ f = r /\ records' = records /\ blind' = blind /\ maintenance' = TRUE
             \/ /\ at = "failed" /\ f = [r EXCEPT !.phase = "failed"] /\ records' = [records EXCEPT ![p] = f]
                /\ blind' = (blind \/ (Cli!Unknown(p) /\ ~Cli!Blocked(p))) /\ maintenance' = maintenance
      PROVE  CliInv'
  <2>1. running' \in Cli!Runs /\ running'.provider = p /\ running'.at = at /\ running'.recovery
    BY <1>6 DEF Cli!Runs
  <2>2. PICK to : to = Place(p)'
    OBVIOUS
  <2>3. to = IF at = "reserving" THEN "recovering" ELSE "failed"
    BY <1>6, <2>1, <2>2, NoneIsNothing DEF Place
  <2>4. r # None /\ r \in Cli!Records
    BY <1>3, <1>6, NoneIsNothing DEF Cli!Interrupted
  <2>5. /\ f.pid = r.pid /\ f.blocked = r.blocked /\ f.attempts = r.attempts
        /\ f = r \/ (to = "failed" /\ blind' = (blind \/ (Unsaved(r) /\ ~r.blocked)))
        /\ f # r => to = "failed"
        /\ to = "failed" => blind' = (blind \/ (Unsaved(r) /\ ~r.blocked))
    BY <1>3, <1>6, <2>3, <2>4, FailedRecord DEF Cli!Unknown, Cli!Blocked, Unsaved
  <2>6. Takes(p, f, j, n)
    <3>1. maintenance' \in BOOLEAN /\ blind' \in BOOLEAN /\ (blind => blind')
      <4>1. blind \in BOOLEAN /\ maintenance \in BOOLEAN
        BY Now
      <4>2. CASE blind' = blind /\ maintenance' = TRUE
        BY <4>1, <4>2
      <4>3. CASE blind' = (blind \/ (Cli!Unknown(p) /\ ~Cli!Blocked(p))) /\ maintenance' = maintenance
        <5>1. blind' \in BOOLEAN /\ (blind => blind')
          BY <4>3, Zenon
        <5> QED BY <4>1, <4>3, <5>1
      <4> QED BY <1>6, <4>2, <4>3
    <3>2. (records' = records /\ records[p] = f) \/ records' = [records EXCEPT ![p] = f]
      BY <1>3, <1>6
    <3>3. /\ journal' = journal /\ journal[p] = j /\ installs' = installs /\ installs[p] = n
          /\ UNCHANGED <<cli, closed, agents, terminal>> /\ todo' = todo \ {p}
          /\ kills' = kills /\ upsets' = upsets /\ installer' = installer
      BY <1>1, <1>3 DEF Cli!bounds
    <3>4. installer' \in [Cli!Pids -> CLIs \cup {None, "gone"}]
      BY <3>3, Now
    <3> QED BY <3>1, <3>2, <3>3, <3>4 DEF Takes
  <2>7. Sound(to, f, j, n)
    BY <1>4, <2>3, <2>4, <2>5, NoneIsNothing DEF Sound, Early
  <2>8. \A i \in Cli!Pids : Knows(i, "none", r, j, p \in todo \/ closed) => blind'
        \/ Knows(i, to, f, j, p \in todo' \/ closed')
    BY <2>3, <2>4, <2>5, NoneIsNothing DEF Knows, Fresh
  <2>9. records'[p] = f /\ journal'[p] = j
    BY <1>1, <1>3, <2>6 DEF Takes, CliInv, CliTypeOK
  <2>10. Known(p)'
    <3>1. ~agents' /\ installer' = installer /\ (blind => blind')
      BY <1>1, <2>6 DEF Takes
    <3>2. ASSUME NEW i \in Cli!Pids, Knows(i, Place(p), records[p], journal[p], p \in todo \/ closed)
          PROVE  blind' \/ Knows(i, Place(p)', records'[p], journal'[p], p \in todo' \/ closed')
      <4>1. Knows(i, "none", r, j, p \in todo \/ closed)
        BY <1>2, <1>3, <3>2
      <4>2. blind' \/ Knows(i, to, f, j, p \in todo' \/ closed')
        BY <2>8, <4>1
      <4> QED BY <2>2, <2>9, <4>2
    <3> QED BY <1>4, <3>1, <3>2, KnownStays
  <2>11. p \notin todo'
    BY <1>1
  <2> QED BY <1>1, <1>3, <2>1, <2>2, <2>6, <2>7, <2>10, <2>11, UpdateTakes
<1>7. CASE ~closed /\ Cli!Interrupted(p)
           /\ ~((closed \/ ~Cli!Interrupted(p)) /\ UNCHANGED <<records, running, maintenance, blind>>)
  <2>1. r \in Cli!Records
    BY <1>3, <1>7 DEF Cli!Interrupted
  <2>2. PICK f : f = [r EXCEPT !.phase = "failed"]
    OBVIOUS
  <2>3. f \in Cli!Records
    BY <2>1, <2>2, FailedRecord
  <2> QED BY <1>3, <1>6, <1>7, <2>1, <2>2, <2>3 DEF Cli!recover
<1> QED BY <1>5, <1>7 DEF Cli!recover

\* A record without a pid is blocked from now on.
LEMMA ReservedInv ==
  ASSUME Cli!CliUpdatesAssumption, CliInv, NEW p \in CLIs, Cli!Reserved(p)
  PROVE  CliInv'
<1>1. /\ Cli!Step(p, "reserving") /\ running.recovery /\ Cli!Goto("waiting")
      /\ records' = [records EXCEPT ![p].blocked = @ \/ Cli!Unknown(p)]
      /\ UNCHANGED <<cli, installer, journal, todo, closed, agents, terminal, Cli!bounds, installs, blind>>
  BY DEF Cli!Reserved, Cli!world, Cli!idle, Cli!history
<1>2. running \in Cli!Runs /\ running.provider = p /\ Place(p) = "recovering"
  BY <1>1, StepPlace
<1>3. /\ running' \in Cli!Runs /\ running'.provider = p /\ Place(p)' = "waiting"
      /\ maintenance' = maintenance
  BY <1>1, <1>2, GotoPlace
<1>4. PICK r \in Cli!Records, j \in Cli!Records, n \in Nat : r = records[p] /\ j = journal[p] /\ n = installs[p]
  BY <1>2, Own, Now DEF Early
<1>5. PICK f : f = [r EXCEPT !.blocked = @ \/ Unsaved(r)]
  OBVIOUS
<1>6. /\ f \in Cli!Records /\ f.pid = r.pid /\ f.attempts = r.attempts
      /\ (r.blocked => f.blocked) /\ (Unsaved(r) => f.blocked)
  BY <1>5 DEF Cli!Records
<1>7. records' = [records EXCEPT ![p] = f]
  BY <1>1, <1>4, <1>5 DEF Cli!Unknown, Unsaved
<1>8. Takes(p, f, j, n)
  BY <1>1, <1>3, <1>4, <1>7, Now DEF Takes, Cli!bounds
<1>9. Sound("recovering", r, j, n) => Sound("waiting", f, j, n)
  BY <1>6, NoneIsNothing DEF Sound, Early
<1>10. \A i \in Cli!Pids : Knows(i, "recovering", r, j, closed) => Knows(i, "waiting", f, j, closed)
  BY <1>6, NoneIsNothing DEF Knows, Fresh
<1> QED BY <1>1, <1>2, <1>3, <1>4, <1>6, <1>8, <1>9, <1>10, GoesInv

-----------------------------------------------------------------------------
(* What is not of an update.                                               *)

\* The records, and what there is about them, stay.
LEMMA RestInv ==
  ASSUME CliInv, UNCHANGED <<cli, installer, journal, records, running, todo, maintenance, kills, upsets,
                          installs, blind>>,
         closed' \in BOOLEAN, terminal' \in BOOLEAN, agents' \in BOOLEAN, closed => closed',
         agents' => /\ running = None /\ todo = {}
                    /\ \A p \in CLIs : Known(p) =>
                         blind \/ \A i \in Cli!Pids : installer[i] = p => records[p].blocked
  PROVE  CliInv'
<1>1. CliTypeOK' /\ Apart'
  BY DEF CliInv, CliTypeOK, Apart
<1>2. ASSUME NEW p \in CLIs
      PROVE  Sound(Place(p), records[p], journal[p], installs[p])' /\ Known(p)'
  <2>1. Place(p)' = Place(p)
    BY DEF Place
  <2>2. Sound(Place(p), records[p], journal[p], installs[p]) /\ Known(p)
    BY DEF CliInv
  <2>3. ASSUME NEW i \in Cli!Pids, Knows(i, Place(p), records[p], journal[p], p \in todo \/ closed)
        PROVE  Knows(i, Place(p), records[p], journal[p], p \in todo \/ closed')
    BY <2>3 DEF Knows
  <2>4. Known(p)'
    BY <2>1, <2>2, <2>3 DEF Known
  <2> QED BY <2>1, <2>2, <2>4
<1> QED BY <1>1, <1>2 DEF CliInv

\* A turn starts only when no installer is known to work.
LEMMA TurnInv ==
  ASSUME Cli!CliUpdatesAssumption, CliInv, Cli!Turn
  PROVE  CliInv'
<1>1. /\ UNCHANGED <<cli, installer, journal, records, running, todo, maintenance, kills, upsets,
                     installs, blind, closed, terminal>>
      /\ Cli!Serving /\ agents' = ~agents /\ (agents' => ~Cli!busy /\ ~closed)
  BY DEF Cli!Turn, Cli!world, Cli!bounds, Cli!history
<1>2. ASSUME agents'
      PROVE  /\ running = None /\ todo = {}
             /\ \A p \in CLIs : Known(p) =>
                  blind \/ \A i \in Cli!Pids : installer[i] = p => records[p].blocked
  <2>1. running = None /\ todo = {} /\ ~closed /\ \A p \in CLIs : ~Cli!Pending(p)
    BY <1>1, <1>2 DEF Cli!busy, Cli!Serving
  <2>2. ASSUME NEW p \in CLIs, Known(p), ~blind, NEW i \in Cli!Pids, installer[i] = p
        PROVE  records[p].blocked
    <3>1. Place(p) = "none"
      BY <2>1 DEF Place
    <3>2. Knows(i, "none", records[p], journal[p], FALSE)
      BY <2>1, <2>2, <3>1 DEF Known
    <3>3. records[p].pid # i
      BY <2>1, <2>2, <3>2, NoneIsNothing DEF Cli!Pending, Cli!cliInstallerAlive, Knows
    <3> QED BY <3>2, <3>3 DEF Knows
  <2> QED BY <2>1, <2>2
<1>3. closed \in BOOLEAN /\ terminal \in BOOLEAN /\ agents \in BOOLEAN
  BY DEF CliInv, CliTypeOK
<1> QED BY <1>1, <1>2, <1>3, RestInv

\* A terminal, a status, a close: no agent comes in by them.
LEMMA AsideInv ==
  ASSUME CliInv, Cli!Terminal \/ Cli!close \/ (\E p \in CLIs : Cli!status(p)) \/ UNCHANGED Cli!vars
  PROVE  CliInv'
<1>1. closed \in BOOLEAN /\ terminal \in BOOLEAN /\ agents \in BOOLEAN
  BY DEF CliInv, CliTypeOK
<1>2. /\ UNCHANGED <<cli, installer, journal, records, running, todo, maintenance, kills, upsets,
                     installs, blind, agents>>
      /\ closed' \in BOOLEAN /\ terminal' \in BOOLEAN /\ (closed => closed')
  <2>1. CASE Cli!Terminal
    BY <1>1, <2>1 DEF Cli!Terminal, Cli!world, Cli!bounds, Cli!history
  <2>2. CASE Cli!close
    BY <1>1, <2>2 DEF Cli!close, Cli!world, Cli!bounds, Cli!history
  <2>3. CASE \E p \in CLIs : Cli!status(p)
    BY <1>1, <2>3 DEF Cli!status, Cli!world, Cli!bounds, Cli!history, Cli!idle
  <2>4. CASE UNCHANGED Cli!vars
    BY <1>1, <2>4 DEF Cli!vars, Cli!world, Cli!bounds, Cli!history, Cli!idle
  <2> QED BY <2>1, <2>2, <2>3, <2>4
<1>3. ASSUME agents
      PROVE  /\ running = None /\ todo = {}
             /\ \A p \in CLIs : Known(p) =>
                  blind \/ \A i \in Cli!Pids : installer[i] = p => records[p].blocked
  BY <1>3 DEF CliInv, Apart, Known
<1> QED BY <1>1, <1>2, <1>3, RestInv

\* The CLI changes, or an installer is finished.
LEMMA ChangesInv ==
  ASSUME Cli!CliUpdatesAssumption, CliInv,
         (\E p \in CLIs : Cli!UserChanges(p)) \/ (\E i \in Cli!Pids : Cli!Works(i))
  PROVE  CliInv'
<1>1. /\ UNCHANGED <<journal, records, running, todo, maintenance, kills, closed, agents, terminal,
                     installs, blind>>
      /\ upsets' \in {upsets, upsets + 1}
  BY DEF Cli!UserChanges, Cli!Works, Cli!Upset, Cli!idle, Cli!bounds, Cli!history
<1>2. cli' \in [CLIs -> Cli!Versions]
  <2>1. CASE \E p \in CLIs : Cli!UserChanges(p)
    BY <2>1 DEF Cli!UserChanges, CliInv, CliTypeOK
  <2>2. ASSUME NEW i \in Cli!Pids, Cli!Works(i)
        PROVE  cli' \in [CLIs -> Cli!Versions]
    <3>1. PICK p \in CLIs : p = installer[i]
      BY <2>2 DEF Cli!Works
    <3>2. cli \in [CLIs -> Cli!Versions] /\ cli[p] \in Cli!Versions
      BY DEF CliInv, CliTypeOK
    <3>3. PICK to \in {"damaged", "target", cli[p]} : cli' = [cli EXCEPT ![p] = to]
      BY <2>2, <3>1 DEF Cli!Works
    <3>4. to \in Cli!Versions
      BY <3>2, <3>3 DEF Cli!Versions
    <3> QED BY <3>2, <3>3, <3>4
  <2> QED BY <2>1, <2>2
<1>3. /\ installer' \in [Cli!Pids -> CLIs \cup {None, "gone"}]
      /\ \A i \in Cli!Pids : installer'[i] = installer[i] \/ installer'[i] = "gone"
  BY DEF Cli!UserChanges, Cli!Works, CliInv, CliTypeOK
<1>4. CliTypeOK' /\ Apart'
  BY <1>1, <1>2, <1>3 DEF CliInv, CliTypeOK, Apart
<1>5. ASSUME NEW p \in CLIs
      PROVE  Sound(Place(p), records[p], journal[p], installs[p])' /\ Known(p)'
  <2>1. Place(p)' = Place(p)
    BY <1>1 DEF Place
  <2>2. Sound(Place(p), records[p], journal[p], installs[p]) /\ Known(p)
    BY DEF CliInv
  <2>3. \A i \in Cli!Pids : installer'[i] = p => installer[i] = p
    BY <1>3, NoneIsNothing
  <2>4. Known(p)'
    BY <1>1, <2>1, <2>2, <2>3 DEF Known
  <2> QED BY <1>1, <2>1, <2>2, <2>4
<1> QED BY <1>4, <1>5 DEF CliInv

\* A restart has the records of the disk, and looks at each before anything else.
LEMMA RestartInv ==
  ASSUME Cli!CliUpdatesAssumption, CliInv, Cli!Restart
  PROVE  CliInv'
<1>1. /\ records' = journal /\ todo' = CLIs /\ running' = None /\ closed' = FALSE
      /\ maintenance' = FALSE /\ agents' = FALSE /\ terminal' = FALSE /\ kills' = kills + 1
      /\ UNCHANGED <<cli, installer, journal, upsets, installs, blind>>
  BY DEF Cli!Restart, Cli!world, Cli!history
<1>2. CliTypeOK' /\ Apart'
  <2>1. CliTypeOK
    BY DEF CliInv
  <2>2. /\ (cli \in [CLIs -> Cli!Versions] /\ installer \in [Cli!Pids -> CLIs \cup {None, "gone"}])'
        /\ (journal \in [CLIs -> Cli!Records \cup {None}] /\ records \in [CLIs -> Cli!Records \cup {None}])'
        /\ (installs \in [CLIs -> Nat])'
    BY <1>1, <2>1 DEF CliTypeOK
  <2>3. (running \in Cli!Runs \cup {None} /\ todo \in SUBSET CLIs /\ kills \in Nat /\ upsets \in Nat)'
    BY <1>1, <2>1 DEF CliTypeOK
  <2>4. (closed \in BOOLEAN /\ maintenance \in BOOLEAN /\ agents \in BOOLEAN /\ terminal \in BOOLEAN
         /\ blind \in BOOLEAN)'
    BY <1>1, <2>1 DEF CliTypeOK
  <2> QED BY <1>1, <2>2, <2>3, <2>4 DEF CliTypeOK, Apart
<1>3. ASSUME NEW p \in CLIs
      PROVE  Sound(Place(p), records[p], journal[p], installs[p])' /\ Known(p)'
  <2>1. Place(p)' = "none"
    BY <1>1 DEF Place
  <2>2. PICK r \in Cli!Records \cup {None}, j \in Cli!Records \cup {None}, n \in Nat :
          r = records[p] /\ j = journal[p] /\ n = installs[p]
    BY Now
  <2>3. Sound(Place(p), r, j, n) /\ Known(p)
    BY <2>2 DEF CliInv
  <2>4. Sound("none", j, j, n)
    <3>1. j # None => j.attempts <= j.attempts
      BY NoneIsNothing DEF Cli!Records
    <3> QED BY <2>3, <3>1 DEF Sound, Early
  <2>5. records'[p] = j /\ journal'[p] = j /\ installs'[p] = n
    BY <1>1, <2>2
  <2>6. ASSUME NEW i \in Cli!Pids, Knows(i, Place(p), r, j, p \in todo \/ closed)
        PROVE  Knows(i, "none", j, j, TRUE)
    <3>1. j # None
      BY <2>3, <2>6 DEF Knows, Sound
    <3> QED BY <2>6, <3>1 DEF Knows, Fresh
  <2>7. p \in todo'
    BY <1>1
  <2>8. Known(p)'
    BY <1>1, <2>1, <2>2, <2>3, <2>5, <2>6, <2>7 DEF Known
  <2> QED BY <2>1, <2>4, <2>5, <2>8
<1> QED BY <1>2, <1>3 DEF CliInv

-----------------------------------------------------------------------------
(* The theorem.                                                            *)

LEMMA CliInitInv ==
  ASSUME Cli!CliUpdatesAssumption, Cli!Init
  PROVE  CliInv
<1>1. CliTypeOK
  BY DEF Cli!Init, CliTypeOK, Cli!Versions
<1>2. Apart
  BY DEF Cli!Init, Apart
<1>3. ASSUME NEW p \in CLIs
      PROVE  Sound(Place(p), records[p], journal[p], installs[p]) /\ Known(p)
  <2>1. Place(p) = "none" /\ records[p] = None /\ journal[p] = None /\ installs[p] = 0
    BY DEF Cli!Init, Place
  <2>2. Sound("none", None, None, 0)
    BY DEF Sound, Early
  <2>3. \A i \in Cli!Pids : installer[i] # p
    BY NoneIsNothing DEF Cli!Init
  <2> QED BY <2>1, <2>2, <2>3 DEF Known
<1> QED BY <1>1, <1>2, <1>3 DEF CliInv

LEMMA CliInvStep ==
  ASSUME Cli!CliUpdatesAssumption, CliInv, [Cli!Next]_Cli!vars
  PROVE  CliInv'
<1>1. CASE Cli!Turn
  BY <1>1, TurnInv
<1>2. CASE Cli!Terminal \/ Cli!close \/ (\E p \in CLIs : Cli!status(p)) \/ UNCHANGED Cli!vars
  BY <1>2, AsideInv
<1>3. CASE Cli!Restart
  BY <1>3, RestartInv
<1>4. CASE (\E p \in CLIs : Cli!UserChanges(p)) \/ (\E i \in Cli!Pids : Cli!Works(i))
  BY <1>4, ChangesInv
<1>5. ASSUME NEW p \in CLIs, Cli!start(p)
      PROVE  CliInv'
  BY <1>5, CliStartInv
<1>6. ASSUME NEW p \in CLIs, Cli!Consented(p) \/ Cli!StopAllFails(p)
      PROVE  CliInv'
  BY <1>6, ConsentedInv
<1>7. ASSUME NEW p \in CLIs, Cli!Saved(p) \/ Cli!Saves(p) \/ Cli!Spawn(p)
      PROVE  CliInv'
  BY <1>7, SavedInv, SavesInv, CliSpawnInv
<1>8. ASSUME NEW p \in CLIs, Cli!onSpawn(p) \/ Cli!InstallerDone(p) \/ Cli!Waited(p)
      PROVE  CliInv'
  BY <1>8, WaitingInv
<1>9. ASSUME NEW p \in CLIs, Cli!Inspected(p) \/ Cli!Finish(p) \/ Cli!recover(p) \/ Cli!Reserved(p)
      PROVE  CliInv'
  BY <1>9, InspectedInv, FinishInv, RecoverInv, ReservedInv
<1> QED BY <1>1, <1>2, <1>3, <1>4, <1>5, <1>6, <1>7, <1>8, <1>9 DEF Cli!Next, Cli!UpdateStep

\* What the invariant says of the installers.
LEMMA CliInvSays ==
  ASSUME Cli!CliUpdatesAssumption, CliInv
  PROVE  Cli!InstallsAlone
<1>1. Cli!OneInstaller
  BY DEF Cli!OneInstaller, Cli!Alive, CliInv, Known
<1>2. Cli!AgentsStayAway
  <2>1. ASSUME agents, NEW i \in Cli!Alive, ~blind
        PROVE  Cli!Blocked(installer[i])
    <3>1. PICK p \in CLIs : installer[i] = p /\ i \in Cli!Pids
      BY <2>1 DEF Cli!Alive
    <3>2. records[p].blocked /\ Knows(i, Place(p), records[p], journal[p], p \in todo \/ closed)
      BY <2>1, <3>1 DEF CliInv, Known
    <3> QED BY <3>1, <3>2 DEF Knows, Cli!Blocked
  <2> QED BY <2>1 DEF Cli!AgentsStayAway
<1>3. Cli!TwiceAtMost
  <2>1. ASSUME NEW p \in CLIs
        PROVE  installs[p] <= 2
    <3>1. PICK j \in Cli!Records \cup {None}, n \in Nat : j = journal[p] /\ n = installs[p]
      BY Now
    <3>2. (j = None => n = 0) /\ (j # None => n <= j.attempts)
      BY <3>1 DEF CliInv, Sound
    <3>3. CASE j = None
      BY <3>1, <3>2, <3>3
    <3>4. CASE j # None
      <4>1. j.attempts \in 0..2
        BY <3>4 DEF Cli!Records
      <4> QED BY <3>1, <3>2, <3>4, <4>1
    <3> QED BY <3>3, <3>4
  <2> QED BY <2>1 DEF Cli!TwiceAtMost
<1> QED BY <1>1, <1>2, <1>3 DEF Cli!InstallsAlone

\* However installers, deaths of the server, failed saves and the user's own changes
\* interleave: no two installers are at work on a CLI, no agent beside one, and a consent
\* is good for two at most.
THEOREM CliUpdatesAreSafe == Cli!CliUpdatesAssumption => (Cli!Spec => []Cli!InstallsAlone)
<1> SUFFICES ASSUME Cli!CliUpdatesAssumption
             PROVE  Cli!Spec => []Cli!InstallsAlone
  OBVIOUS
<1>1. Cli!Init => CliInv
  BY CliInitInv
<1>2. CliInv /\ [Cli!Next]_Cli!vars => CliInv'
  BY CliInvStep
<1>3. CliInv => Cli!InstallsAlone
  BY CliInvSays
<1> QED BY <1>1, <1>2, <1>3, PTL DEF Cli!Spec

-----------------------------------------------------------------------------
(***************************************************************************)
(* Managed updates (UpdateEngine).                                         *)
(***************************************************************************)
(* The inductive invariant. *)

UpdatePhases == {"queued", "preparing"} \cup Update!SWITCH_PHASES \cup Update!FINISHED_PHASES

\* Where the worker is.
UpdatePlaces == {"idle", "claim", "unlink", "execute", "give up", "fail"} \cup Update!Forward \cup Update!Recovering

Controlled ==
  /\ control \in [runtime : Nat, paused : BOOLEAN]
  /\ runner \in [runtime : Nat, stopped : BOOLEAN, error : BOOLEAN]
  /\ ctl \in [pc : {"down", "idle", "stop", "launch", "spawn"}, runtime : Nat]

UpdateTypeOK ==
  /\ Controlled /\ worker \in UpdatePlaces
  /\ request \in Update!Requests \cup {None, Partial} /\ state \in Update!Requests \cup {None}
  /\ app \in Update!Applications \cup {None}
  /\ data \in Update!Copies \cup {None} /\ backup \in Update!Copies \cup {None}
  /\ staged \in Update!Copies \cup {None, Partial} /\ quarantine \in Update!Copies \cup {None}
  /\ updates \in Nat /\ userTurns \in Nat /\ faults \in Nat /\ stale \in BOOLEAN

\* The journal says where the worker is.
UpdatePhased ==
  /\ worker \notin {"idle", "claim", "execute"} => state # None
  /\ worker = "unlink" => state.phase = "queued"
  /\ worker \in {"prepare", "fail"} => state.phase = "preparing"
  /\ worker \in {"pause", "wait"} => state.phase = "pausing"
  /\ worker = "backup" => state.phase = "backing-up"
  /\ worker \in {"start", "started"} => state.phase = "starting"
  /\ worker = "verify" => state.phase = "verifying"
  /\ worker \in {"rollback", "give up"} => state.phase \in Update!SWITCH_PHASES
  /\ worker \in Update!Recovering \ {"rollback"} => state.phase = "rolling-back"

Requested == request \notin {None, Partial}

\* Updates are numbered, and one is requested or under way.
UpdateNumbered ==
  /\ control.runtime <= updates
  /\ state # None => state.id <= updates /\ state.oldRuntime < state.id
  /\ Requested =>
       /\ request.id = updates /\ request.oldRuntime < request.id /\ request.phase = "queued"
       /\ ~request.newMayHaveStarted /\ ~request.dataRestored
       /\ \/ Update!Finished /\ request.oldRuntime = control.runtime /\ (state # None => state.id < request.id)
          \/ state # None /\ state.id = request.id /\ state.phase = "queued" /\ worker # "execute"
  /\ worker = "unlink" => Requested /\ request.id = state.id

\* What the journal says of new code, of the data and of the selected runtime.
Journalled ==
  state # None =>
    /\ state.dataRestored => state.newMayHaveStarted
    /\ state.phase \in {"starting", "verifying"} => state.newMayHaveStarted /\ ~state.dataRestored
    /\ state.phase \in {"queued", "preparing", "pausing", "backing-up"} => ~state.newMayHaveStarted
    /\ ~Update!Finished /\ ~state.newMayHaveStarted => control.runtime = state.oldRuntime
    /\ ~Update!Finished => control.runtime \in {state.oldRuntime, state.id}

\* New code may have changed the data, and a recovery has not put it back.
Undone == Update!Switching /\ state.newMayHaveStarted /\ ~state.dataRestored

\* The controller keeps the application stopped for these steps.
Halted == {"backup", "start", "restore", "stage", "set aside", "put back", "restored", "rollback start"}

\* The steps of a recovery.
Restores ==
  /\ worker \in {"wait", "rollback wait"} \cup Halted => control.paused
  /\ worker \in {"stage", "set aside", "put back", "restored"} => Undone
  /\ worker = "stage" => state.dataExisted
  /\ worker = "set aside" /\ state.dataExisted => staged = backup
  /\ worker = "put back" => state.dataExisted /\ staged = backup
  /\ worker \in {"rollback start", "rollback verify"} => ~Undone

Keeps(copy) == Update!TurnsIn(copy) = userTurns
               /\ (copy # None => copy # Partial /\ copy.format <= state.oldRuntime)

\* The data holds the user's turns, except between new code and the end of a recovery,
\* when the backup does; and the application is the one of the selected runtime.
Safe ==
  /\ app # None => app.runtime = control.runtime /\ (app.busy => ~app.paused)
  /\ data # None => data.format <= control.runtime
  /\ worker \in Halted => app = None
  /\ Update!Switching /\ state.newMayHaveStarted /\ app # None => app.paused
  /\ Undone => Keeps(backup) /\ (backup # None <=> state.dataExisted)
  /\ Update!Switching /\ state.dataRestored =>
       /\ data # None => data.format <= state.oldRuntime
       /\ (control.paused /\ app = None) \/ control.runtime = state.oldRuntime
  /\ ~(Undone /\ state.phase \in {"rolling-back", "recovery-required"}) => Update!TurnsIn(data) = userTurns
  /\ worker = "put back" => data = None
  /\ worker = "restored" => data = backup

UpdateInv == UpdateTypeOK /\ UpdatePhased /\ UpdateNumbered /\ Journalled /\ Restores /\ (stale \/ Safe)

-----------------------------------------------------------------------------
(* The records.                                                            *)

LEMMA UpdateNothing ==
  ASSUME Update!UpdateAssumption
  PROVE  /\ None # Partial
         /\ None \notin Update!Requests /\ None \notin Update!Copies /\ None \notin Update!Applications
         /\ Partial \notin Update!Requests /\ Partial \notin Update!Copies /\ Partial \notin Update!Applications
BY DEF Update!UpdateAssumption

LEMMA Save3 ==
  ASSUME Update!UpdateAssumption, NEW s \in Update!Requests, NEW ph \in UpdatePhases, NEW t,
         t = [s EXCEPT !.phase = ph]
  PROVE  /\ t \in Update!Requests /\ t # None /\ t.phase = ph
         /\ t.id = s.id /\ t.prepareOnly = s.prepareOnly /\ t.oldRuntime = s.oldRuntime
         /\ t.dataExisted = s.dataExisted /\ t.newMayHaveStarted = s.newMayHaveStarted
         /\ t.dataRestored = s.dataRestored
BY UpdateNothing DEF Update!Requests, UpdatePhases

\* A step that saves a phase.
LEMMA SavePhase ==
  ASSUME Update!UpdateAssumption, UpdateTypeOK, state # None, NEW ph \in UpdatePhases, NEW next,
         Update!Save(ph, next)
  PROVE  /\ worker' = next /\ state' \in Update!Requests /\ state' # None /\ state'.phase = ph
         /\ state'.id = state.id /\ state'.prepareOnly = state.prepareOnly
         /\ state'.oldRuntime = state.oldRuntime /\ state'.dataExisted = state.dataExisted
         /\ state'.newMayHaveStarted = state.newMayHaveStarted
         /\ state'.dataRestored = state.dataRestored
<1>1. PICK s \in Update!Requests : s = state
  BY DEF UpdateTypeOK
<1>2. PICK t : t = [s EXCEPT !.phase = ph]
  OBVIOUS
<1>3. state' = t /\ worker' = next
  BY <1>1, <1>2 DEF Update!Save
<1> QED BY <1>1, <1>2, <1>3, Save3

LEMMA UpdateTyped ==
  ASSUME UpdateTypeOK, state # None
  PROVE  /\ state \in Update!Requests /\ state.id \in Nat /\ state.oldRuntime \in Nat
            /\ state.phase \in UpdatePhases
         /\ state.dataExisted \in BOOLEAN /\ state.newMayHaveStarted \in BOOLEAN
         /\ state.dataRestored \in BOOLEAN
BY DEF UpdateTypeOK, Update!Requests, UpdatePhases

LEMMA StillSafe ==
  ASSUME UpdateInv, stale' = stale, Safe => Safe'
  PROVE  (stale \/ Safe)'
<1>1. CASE stale
  BY <1>1
<1>2. CASE Safe
  BY <1>2
<1> QED BY <1>1, <1>2 DEF UpdateInv

-----------------------------------------------------------------------------
(* The worker: a step that only saves a phase.                             *)

\* What the other variables are is kept.
Elsewhere == UNCHANGED <<request, control, runner, ctl, app, data, Update!copies, Update!history>>

\* A phase that the worker may save after the one there is.
After(ph) ==
  /\ ph # "queued"
  /\ ph \in {"starting", "verifying"} => state.phase \in {"starting", "verifying"}
  /\ ph \in {"preparing", "pausing", "backing-up"} =>
       state.phase \in {"queued", "preparing", "pausing", "backing-up"}
  /\ ph \in Update!SWITCH_PHASES => Update!Switching \/ ph = "pausing"
  /\ ph \in Update!FINISHED_PHASES => state.phase \notin {"rolling-back", "recovery-required"} \/ ~Undone

LEMMA SaveInv ==
  ASSUME Update!UpdateAssumption, UpdateInv, state # None, NEW ph \in UpdatePhases, NEW next \in UpdatePlaces,
         Update!Save(ph, next), Elsewhere, ~Update!Finished, ~Requested, After(ph),
         UpdatePhased', Restores', next \notin {"unlink", "put back", "restored"},
         next \in Halted => app = None
  PROVE  UpdateInv'
<1>1. /\ worker' = next /\ state' \in Update!Requests /\ state' # None /\ state'.phase = ph
      /\ state'.id = state.id /\ state'.prepareOnly = state.prepareOnly
      /\ state'.oldRuntime = state.oldRuntime /\ state'.dataExisted = state.dataExisted
      /\ state'.newMayHaveStarted = state.newMayHaveStarted
      /\ state'.dataRestored = state.dataRestored
  BY SavePhase DEF UpdateInv
<1>2. UNCHANGED <<request, control, runner, ctl, app, data, backup, staged, quarantine, updates, userTurns,
                  faults, stale>>
  BY DEF Elsewhere, Update!copies, Update!history
<1>3. UpdateTypeOK'
  <2>1. UpdateTypeOK
    BY DEF UpdateInv
  <2>2. Controlled'
    BY <1>2, <2>1 DEF UpdateTypeOK, Controlled
  <2> QED BY <1>1, <1>2, <2>1, <2>2 DEF UpdateTypeOK
<1>4. UpdateNumbered'
  BY <1>1, <1>2 DEF UpdateInv, UpdateNumbered, Requested
<1>5. Journalled'
  BY <1>1, <1>2 DEF UpdateInv, Journalled, After, Update!Finished, Update!Switching, Update!FINISHED_PHASES,
     Update!SWITCH_PHASES
<1>6. ASSUME Safe
      PROVE  Safe'
  <2>1. Update!Switching' => Update!Switching \/ ~state.newMayHaveStarted
    BY <1>1 DEF UpdateInv, Journalled, After, Update!Switching, Update!SWITCH_PHASES
  <2>2. Undone' => Undone
    BY <1>1, <2>1 DEF Undone, Update!Switching
  <2>3. /\ Undone' => (Keeps(backup) /\ (backup # None <=> state.dataExisted))'
        /\ (Update!Switching /\ state.newMayHaveStarted /\ app # None => app.paused)'
        /\ (Update!Switching /\ state.dataRestored =>
             /\ data # None => data.format <= state.oldRuntime
             /\ (control.paused /\ app = None) \/ control.runtime = state.oldRuntime)'
    BY <1>1, <1>2, <1>6, <2>1, <2>2 DEF Safe, Keeps, Update!TurnsIn, UpdateInv, Journalled
  <2>4. (~(Undone /\ state.phase \in {"rolling-back", "recovery-required"}) => Update!TurnsIn(data) = userTurns)'
    BY <1>1, <1>2, <1>6, <2>1, <2>2
    DEF Safe, Update!TurnsIn, After, Undone, Update!Switching, Update!SWITCH_PHASES, Update!FINISHED_PHASES,
        Update!Finished, UpdatePhases
  <2> QED BY <1>1, <1>2, <1>6, <2>3, <2>4 DEF Safe
<1> QED BY <1>2, <1>3, <1>4, <1>5, <1>6 DEF UpdateInv

\* A step of the worker that leaves everything else.
LEMMA MoveInv ==
  ASSUME Update!UpdateAssumption, UpdateInv, NEW next \in UpdatePlaces, worker' = next, faults' \in Nat,
         UNCHANGED <<request, state, control, runner, ctl, app, data, Update!copies, updates, userTurns, stale>>,
         UpdatePhased', Restores', next \notin {"execute", "unlink", "put back", "restored"},
         next \in Halted => app = None
  PROVE  UpdateInv'
<1>1. UNCHANGED <<request, state, control, runner, ctl, app, data, backup, staged, quarantine, updates,
                  userTurns, stale>>
  BY DEF Update!copies
<1>2. UpdateTypeOK'
  <2>1. UpdateTypeOK
    BY DEF UpdateInv
  <2>2. Controlled'
    BY <1>1, <2>1 DEF UpdateTypeOK, Controlled
  <2> QED BY <1>1, <2>1, <2>2 DEF UpdateTypeOK
<1>3. UpdateNumbered' /\ Journalled'
  BY <1>1 DEF UpdateInv, UpdateNumbered, Journalled, Requested, Update!Finished, Update!Switching
<1>4. ASSUME Safe
      PROVE  Safe'
  BY <1>1, <1>4 DEF Safe, Keeps, Update!TurnsIn, Undone, Update!Switching
<1>5. (stale \/ Safe)'
  BY <1>1, <1>4, StillSafe
<1> QED BY <1>2, <1>3, <1>5 DEF UpdateInv

-----------------------------------------------------------------------------
(* The worker, up to the end of a switch.                                  *)

LEMMA ForwardInv ==
  ASSUME Update!UpdateAssumption, UpdateInv, Update!Prepared \/ Update!Started \/ Update!Verified
  PROVE  UpdateInv'
<1>1. /\ UpdatePhased /\ UpdateNumbered /\ Journalled /\ Restores /\ UpdateTypeOK /\ state # None
      /\ ~Update!Finished /\ ~Requested /\ Elsewhere
  BY DEF UpdateInv, UpdatePhased, UpdateNumbered, Requested, Update!Finished, Update!FINISHED_PHASES,
     Update!Prepared, Update!Started, Update!Verified,
         Update!Recovering, Elsewhere
<1>2. PICK ph \in UpdatePhases, next \in {"idle", "pause", "verify"} :
        /\ Update!Save(ph, next)
        /\ \/ worker = "prepare" /\ ph = "prepared" /\ next = "idle"
           \/ worker = "prepare" /\ ph = "pausing" /\ next = "pause"
           \/ worker = "started" /\ ph = "verifying" /\ next = "verify"
           \/ worker = "verify" /\ ph = "succeeded" /\ next = "idle"
           \/ worker = "rollback verify" /\ ph = "rolled-back" /\ next = "idle"
  <2> USE DEF UpdatePhases, Update!SWITCH_PHASES, Update!FINISHED_PHASES
  <2>1. CASE Update!Prepared
    BY <2>1 DEF Update!Prepared
  <2>2. CASE Update!Started
    BY <2>2 DEF Update!Started
  <2>3. CASE Update!Verified
    BY <2>3 DEF Update!Verified
  <2> QED BY <2>1, <2>2, <2>3
<1>3. /\ state' # None /\ state'.phase = ph /\ worker' = next
  BY <1>1, <1>2, SavePhase
<1>4. After(ph)
  BY <1>1, <1>2 DEF After, UpdatePhased, Restores, Update!Recovering, Update!Switching, Update!SWITCH_PHASES,
     Update!FINISHED_PHASES
<1>5. UpdatePhased' /\ Restores'
  BY <1>2, <1>3 DEF UpdatePhased, Restores, Update!Recovering, Halted
<1>6. next \in UpdatePlaces /\ next \notin Halted \cup {"unlink", "put back", "restored"}
  BY <1>2 DEF UpdatePlaces, Update!Forward, Halted
<1> QED BY <1>1, <1>2, <1>4, <1>5, <1>6, SaveInv

LEMMA StoppedInv ==
  ASSUME Update!UpdateAssumption, UpdateInv, Update!Stopped
  PROVE  UpdateInv'
<1>1. /\ UpdatePhased /\ UpdateNumbered /\ Restores /\ UpdateTypeOK /\ state # None
      /\ ~Update!Finished /\ ~Requested /\ Elsewhere /\ app = None
  BY DEF UpdateInv, UpdatePhased, UpdateNumbered, Requested, Update!Finished, Update!FINISHED_PHASES,
     Update!Stopped, Update!Recovering, Elsewhere
<1>2. CASE worker = "wait" /\ Update!Save("backing-up", "backup")
  <2>1. "backing-up" \in UpdatePhases /\ "backup" \in UpdatePlaces
    BY DEF UpdatePhases, Update!SWITCH_PHASES, UpdatePlaces, Update!Forward
  <2>2. /\ state' # None /\ state'.phase = "backing-up" /\ worker' = "backup"
    BY <1>1, <1>2, <2>1, SavePhase
  <2>3. After("backing-up")
    BY <1>1, <1>2 DEF After, UpdatePhased, Update!Switching, Update!SWITCH_PHASES, Update!FINISHED_PHASES
  <2>4. UpdatePhased' /\ Restores'
    BY <1>1, <1>2, <2>2 DEF UpdatePhased, Restores, Update!Recovering, Halted, Elsewhere
  <2> QED BY <1>1, <1>2, <2>1, <2>3, <2>4, SaveInv
<1>3. CASE worker = "rollback wait" /\ worker' = "restore" /\ UNCHANGED state
  <2>1. UpdatePhased' /\ Restores'
    BY <1>1, <1>3 DEF UpdatePhased, Restores, Update!Recovering, Halted, Elsewhere
  <2>2. "restore" \in UpdatePlaces
    BY DEF UpdatePlaces, Update!Recovering
  <2>3. faults' \in Nat
    BY <1>1 DEF UpdateTypeOK, Elsewhere, Update!history
  <2> QED BY <1>1, <1>3, <2>1, <2>2, <2>3, MoveInv DEF Elsewhere, Update!history
<1> QED BY <1>2, <1>3 DEF Update!Stopped

LEMMA ExceptionInv ==
  ASSUME Update!UpdateAssumption, UpdateInv,
         Update!Refused \/ Update!StepFails \/ Update!WorkerDies \/ Update!WorkerStart
  PROVE  UpdateInv'
<1>1. /\ UpdatePhased /\ Restores /\ UpdateTypeOK
      /\ UNCHANGED <<request, state, control, runner, ctl, app, data, Update!copies, updates, userTurns, stale>>
  BY DEF UpdateInv, Update!Refused, Update!StepFails, Update!WorkerDies, Update!WorkerStart, Update!Throw,
     Update!files, Update!history
<1>2. faults' \in Nat
  <2>1. faults' \in {faults, faults + 1}
    BY DEF Update!Refused, Update!StepFails, Update!WorkerDies, Update!WorkerStart, Update!Fault, Update!history
  <2> QED BY <1>1, <2>1 DEF UpdateTypeOK
<1>3. PICK next \in {"idle", "claim", "rollback", "fail", "give up"} :
        /\ worker' = next
        /\ next = "give up" => worker \in Update!Recovering
        /\ next = "rollback" => Update!Switching
        /\ next = "fail" => worker \in Update!Forward /\ ~Update!Switching
  <2>1. CASE Update!Throw /\ worker \in Update!Recovering \cup Update!Forward
    <3>1. CASE worker \in Update!Recovering
      BY <2>1, <3>1 DEF Update!Throw, Update!Recovering, Update!Forward
    <3>2. CASE worker \in Update!Forward /\ worker \notin Update!Recovering /\ Update!Switching
      BY <2>1, <3>2 DEF Update!Throw
    <3>3. CASE worker \in Update!Forward /\ worker \notin Update!Recovering /\ ~Update!Switching
      BY <2>1, <3>3 DEF Update!Throw
    <3> QED BY <2>1, <3>1, <3>2, <3>3
  <2>2. CASE Update!WorkerDies
    BY <2>2 DEF Update!WorkerDies
  <2>3. CASE Update!WorkerStart
    BY <2>3 DEF Update!WorkerStart
  <2> QED BY <2>1, <2>2, <2>3 DEF Update!Refused, Update!StepFails, Update!Forward, Update!Recovering
<1>4. UpdatePhased' /\ Restores'
  <2>1. UpdatePhased'
    BY <1>1, <1>3 DEF UpdatePhased, Update!Recovering, Update!Forward, Update!Switching, Update!SWITCH_PHASES
  <2>2. Restores'
    BY <1>1, <1>3 DEF Restores, Halted
  <2> QED BY <2>1, <2>2
<1>5. next \in UpdatePlaces /\ next \notin Halted \cup {"execute", "unlink", "put back", "restored"}
  BY <1>3 DEF UpdatePlaces, Update!Recovering, Halted
<1> QED BY <1>1, <1>2, <1>3, <1>4, <1>5, MoveInv

LEMMA ExecuteInv ==
  ASSUME Update!UpdateAssumption, UpdateInv, Update!execute
  PROVE  UpdateInv'
<1>1. /\ UpdatePhased /\ UpdateNumbered /\ Restores /\ UpdateTypeOK /\ worker = "execute" /\ Elsewhere
  BY DEF UpdateInv, Update!execute, Elsewhere
<1>2. CASE worker' \in {"idle", "rollback"} /\ UNCHANGED state /\ (worker' = "rollback" => Update!Switching)
  <2>1. PICK next \in {"idle", "rollback"} : worker' = next /\ (next = "rollback" => Update!Switching)
    BY <1>2
  <2>2. UpdatePhased' /\ Restores'
    BY <1>1, <1>2, <2>1 DEF UpdatePhased, Restores, Update!Recovering, Halted, Update!Switching
  <2>3. next \in UpdatePlaces /\ next \notin Halted \cup {"execute", "unlink", "put back", "restored"}
    BY <2>1 DEF UpdatePlaces, Update!Recovering, Halted
  <2>4. faults' \in Nat
    BY <1>1 DEF UpdateTypeOK, Elsewhere, Update!history
  <2> QED BY <1>1, <1>2, <2>1, <2>2, <2>3, <2>4, MoveInv DEF Elsewhere, Update!history
<1>3. ASSUME NEW ph \in {"preparing", "failed"}, NEW next \in {"prepare", "idle"}, ~Update!Finished,
             state.phase \in {"queued", "preparing"}, Update!Save(ph, next),
             next = "prepare" => ph = "preparing"
      PROVE  UpdateInv'
  <2>1. ph \in UpdatePhases /\ next \in UpdatePlaces
        /\ next \notin Halted \cup {"unlink", "put back", "restored"}
    BY DEF UpdatePhases, Update!FINISHED_PHASES, UpdatePlaces, Update!Forward, Halted
  <2>2. state # None /\ ~Requested
    BY <1>1, <1>3 DEF Update!Finished, UpdateNumbered
  <2>3. /\ state' # None /\ state'.phase = ph /\ worker' = next
    BY <1>1, <1>3, <2>1, <2>2, SavePhase
  <2>4. After(ph)
    BY <1>3 DEF After, Undone, Update!Switching, Update!SWITCH_PHASES, Update!FINISHED_PHASES
  <2>5. UpdatePhased' /\ Restores'
    BY <1>1, <1>3, <2>3 DEF UpdatePhased, Restores, Update!Recovering, Halted
  <2> QED BY <1>1, <1>3, <2>1, <2>2, <2>4, <2>5, SaveInv
<1>4. ~Update!Finished /\ ~Update!Switching => state.phase \in {"queued", "preparing"}
  BY <1>1, UpdateTyped DEF Update!Finished, Update!Switching, UpdatePhases
<1> QED BY <1>2, <1>3, <1>4 DEF Update!execute

LEMMA EndInv ==
  ASSUME Update!UpdateAssumption, UpdateInv, Update!BeginRollback \/ Update!GiveUp \/ Update!Fail
  PROVE  UpdateInv'
<1>1. /\ UpdatePhased /\ UpdateNumbered /\ Restores /\ UpdateTypeOK /\ state # None /\ Elsewhere
  BY DEF UpdateInv, UpdatePhased, Update!BeginRollback, Update!GiveUp, Update!Fail, Update!Recovering, Elsewhere
<1>2. PICK ph \in UpdatePhases, next \in {"idle", "rollback pause"} :
        /\ Update!Save(ph, next)
        /\ \/ worker = "rollback" /\ ph = "rolling-back" /\ next = "rollback pause"
           \/ worker = "give up" /\ ph = "recovery-required" /\ next = "idle"
           \/ worker = "fail" /\ ph = "failed" /\ next = "idle"
  BY DEF Update!BeginRollback, Update!GiveUp, Update!Fail, UpdatePhases, Update!SWITCH_PHASES,
     Update!FINISHED_PHASES
<1>3. /\ state' # None /\ state'.phase = ph /\ worker' = next
  BY <1>1, <1>2, SavePhase
<1>4. ~Update!Finished /\ ~Requested /\ After(ph)
  BY <1>1, <1>2
  DEF After, UpdatePhased, UpdateNumbered, Undone, Update!Switching, Update!Finished, Update!SWITCH_PHASES,
      Update!FINISHED_PHASES
<1>5. UpdatePhased' /\ Restores'
  BY <1>2, <1>3 DEF UpdatePhased, Restores, Update!Recovering, Halted
<1>6. next \in UpdatePlaces /\ next \notin Halted \cup {"unlink", "put back", "restored"}
  BY <1>2 DEF UpdatePlaces, Update!Recovering, Halted
<1> QED BY <1>1, <1>2, <1>4, <1>5, <1>6, SaveInv

-----------------------------------------------------------------------------
(* The worker: requests, orders to the controller, the data.               *)

LEMMA ClaimInv ==
  ASSUME Update!UpdateAssumption, UpdateInv, Update!claimRequest
  PROVE  UpdateInv'
<1>1. /\ UpdatePhased /\ UpdateNumbered /\ Journalled /\ Restores /\ UpdateTypeOK /\ worker = "claim"
      /\ UNCHANGED <<control, runner, ctl, app, data, updates, userTurns, faults, stale>>
  BY DEF UpdateInv, Update!claimRequest, Update!history
<1>2. CASE /\ request' \in {request, None, Partial} /\ worker' \in {"execute", "unlink"}
           /\ UNCHANGED <<state, backup, staged, quarantine>>
           /\ worker' = "unlink" => Requested /\ request' = request /\ state # None /\ state.id = request.id
           /\ worker' = "execute"
              => (Requested' => request' = request /\ (state # None => state.id # request.id))
  <2>1. UpdateTypeOK'
    <3>1. Controlled'
      BY <1>1 DEF UpdateTypeOK, Controlled
    <3> QED BY <1>1, <1>2, <3>1 DEF UpdateTypeOK, UpdatePlaces
  <2>2. UpdateNumbered'
    BY <1>1, <1>2 DEF UpdateNumbered, Requested, Update!Finished
  <2>3. worker' = "unlink" => state.phase = "queued"
    BY <1>1, <1>2, UpdateTyped DEF UpdateNumbered
  <2>4. UpdatePhased' /\ Journalled' /\ Restores'
    BY <1>1, <1>2, <2>3 DEF UpdatePhased, Journalled, Restores, Update!Finished, Update!Switching, Halted,
       Update!Recovering
  <2>5. ASSUME Safe
        PROVE  Safe'
    BY <1>1, <1>2, <2>5 DEF Safe, Keeps, Update!TurnsIn, Undone, Update!Switching, Halted
  <2>6. (stale \/ Safe)'
    BY <1>1, <2>5, StillSafe
  <2> QED BY <2>1, <2>2, <2>4, <2>6 DEF UpdateInv
<1>3. CASE /\ Requested /\ Update!Finished /\ (state # None => state.id # request.id)
           /\ state' = request /\ worker' = "unlink"
           /\ backup' = None /\ staged' = None /\ quarantine' = None /\ request' = request
  <2>1. /\ request \in Update!Requests /\ request # None /\ request.phase = "queued" /\ request.id = updates
        /\ request.oldRuntime < request.id /\ request.oldRuntime = control.runtime
        /\ ~request.newMayHaveStarted /\ ~request.dataRestored
    BY <1>1, <1>3 DEF UpdateNumbered, Requested, UpdateTypeOK
  <2>2. PICK r \in Update!Requests : r = request
    BY <2>1
  <2>3. /\ r # None /\ r.phase = "queued" /\ r.id = updates /\ r.oldRuntime < r.id
        /\ r.oldRuntime = control.runtime /\ ~r.newMayHaveStarted /\ ~r.dataRestored
        /\ state' = r /\ request' = r
    BY <1>3, <2>1, <2>2
  <2>4. UpdateTypeOK'
    <3>1. Controlled'
      BY <1>1 DEF UpdateTypeOK, Controlled
    <3> QED BY <1>1, <1>3, <2>3, <3>1 DEF UpdateTypeOK, UpdatePlaces
  <2>5. UpdateNumbered'
    BY <1>1, <1>3, <2>3 DEF UpdateNumbered, Requested, UpdateTypeOK
  <2>6. ~Update!Switching' /\ ~Undone'
    BY <2>3 DEF Undone, Update!Switching, Update!SWITCH_PHASES
  <2>7. UpdatePhased' /\ Journalled' /\ Restores'
    BY <1>1, <1>3, <2>3, <2>6 DEF UpdatePhased, Journalled, Restores, Halted, Update!Recovering
  <2>8. ASSUME Safe
        PROVE  Safe'
    <3>1. Update!TurnsIn(data) = userTurns
      BY <1>3, <2>8 DEF Safe, Undone, Update!Finished, Update!FINISHED_PHASES, Update!Switching,
         Update!SWITCH_PHASES
    <3> QED BY <1>1, <1>3, <2>6, <2>8, <3>1 DEF Safe, Update!TurnsIn, Halted
  <2>9. (stale \/ Safe)'
    BY <1>1, <2>8, StillSafe
  <2> QED BY <2>4, <2>5, <2>7, <2>9 DEF UpdateInv
<1>4. CASE request = None
  BY <1>1, <1>2, <1>4 DEF Update!claimRequest, Requested, Update!copies
<1>5. CASE request = Partial
  BY <1>1, <1>2, <1>5, UpdateNothing DEF Update!claimRequest, Requested, Update!copies
<1>6. CASE Requested /\ state # None /\ state.id = request.id
  BY <1>1, <1>2, <1>6 DEF Update!claimRequest, Requested, Update!copies
<1>7. CASE Requested /\ ~(state # None /\ state.id = request.id) /\ ~Update!Finished
  BY <1>1, <1>2, <1>7 DEF Update!claimRequest, Requested, Update!copies
<1>8. CASE Requested /\ ~(state # None /\ state.id = request.id) /\ Update!Finished
  BY <1>1, <1>3, <1>8 DEF Update!claimRequest, Requested
<1> QED BY <1>4, <1>5, <1>6, <1>7, <1>8 DEF Requested

LEMMA UnlinkInv ==
  ASSUME Update!UpdateAssumption, UpdateInv, Update!Unlink
  PROVE  UpdateInv'
<1>1. /\ UpdatePhased /\ UpdateNumbered /\ Journalled /\ Restores /\ UpdateTypeOK /\ worker = "unlink"
      /\ request' = None /\ worker' = "execute"
      /\ UNCHANGED <<state, control, runner, ctl, app, data, backup, staged, quarantine, updates, userTurns,
                     faults, stale>>
  BY DEF UpdateInv, Update!Unlink, Update!history, Update!copies
<1>2. UpdateTypeOK'
  <2>1. Controlled'
    BY <1>1 DEF UpdateTypeOK, Controlled
  <2> QED BY <1>1, <2>1 DEF UpdateTypeOK, UpdatePlaces
<1>3. UpdateNumbered' /\ UpdatePhased' /\ Journalled' /\ Restores'
  BY <1>1
  DEF UpdateNumbered, Requested, UpdatePhased, Journalled, Restores, Update!Finished, Update!Switching, Undone,
      Halted, Update!Recovering
<1>4. ASSUME Safe
      PROVE  Safe'
  BY <1>1, <1>4 DEF Safe, Keeps, Update!TurnsIn, Undone, Update!Switching, Halted
<1>5. (stale \/ Safe)'
  BY <1>1, <1>4, StillSafe
<1> QED BY <1>2, <1>3, <1>5 DEF UpdateInv

\* An order to the controller: pause, or run a selected runtime.
LEMMA PauseInv ==
  ASSUME Update!UpdateAssumption, UpdateInv, Update!pauseManagedServer
  PROVE  UpdateInv'
<1>1. /\ UpdatePhased /\ UpdateNumbered /\ Journalled /\ Restores /\ UpdateTypeOK
      /\ \/ worker = "pause" /\ worker' = "wait"
         \/ worker = "rollback pause" /\ worker' = "rollback wait"
      /\ control' = [control EXCEPT !.paused = TRUE]
      /\ UNCHANGED <<request, state, runner, ctl, app, data, backup, staged, quarantine, updates, userTurns,
                     faults, stale>>
  BY DEF UpdateInv, Update!pauseManagedServer, Update!history, Update!copies
<1>2. control' \in [runtime : Nat, paused : BOOLEAN] /\ control'.paused /\ control'.runtime = control.runtime
  BY <1>1 DEF UpdateTypeOK, Controlled
<1>3. UpdateTypeOK'
  <2>1. Controlled'
    BY <1>1, <1>2 DEF UpdateTypeOK, Controlled
  <2> QED BY <1>1, <2>1 DEF UpdateTypeOK, UpdatePlaces, Update!Forward, Update!Recovering
<1>4. UpdateNumbered' /\ UpdatePhased' /\ Journalled'
  BY <1>1, <1>2 DEF UpdateNumbered, Requested, UpdatePhased, Journalled, Update!Finished, Update!Switching,
     Update!Recovering
<1>5. Restores'
  BY <1>1, <1>2 DEF Restores, Halted
<1>6. ASSUME Safe
      PROVE  Safe'
  BY <1>1, <1>2, <1>6 DEF Safe, Keeps, Update!TurnsIn, Undone, Update!Switching, Halted
<1>7. (stale \/ Safe)'
  BY <1>1, <1>6, StillSafe
<1> QED BY <1>3, <1>4, <1>5, <1>7 DEF UpdateInv

LEMMA ResumeInv ==
  ASSUME Update!UpdateAssumption, UpdateInv, Update!resumeManagedServer
  PROVE  UpdateInv'
<1>1. /\ UpdatePhased /\ UpdateNumbered /\ Journalled /\ Restores /\ UpdateTypeOK /\ state # None
      /\ UNCHANGED <<request, state, runner, ctl, app, data, backup, staged, quarantine, updates, userTurns,
                     faults, stale>>
  BY DEF UpdateInv, Update!resumeManagedServer, Update!history, Update!copies, UpdatePhased
<1>2. PICK runtime \in {state.id, state.oldRuntime} :
        /\ control' = [runtime |-> runtime, paused |-> FALSE]
        /\ \/ worker = "start" /\ worker' = "started" /\ runtime = state.id
           \/ worker = "rollback start" /\ worker' = "rollback verify" /\ runtime = state.oldRuntime
  BY DEF Update!resumeManagedServer
<1>3. /\ runtime \in Nat /\ runtime <= updates
      /\ control' \in [runtime : Nat, paused : BOOLEAN] /\ ~control'.paused /\ control'.runtime = runtime
  <2>1. runtime \in Nat /\ runtime <= updates
    BY <1>1, UpdateTyped DEF UpdateNumbered, UpdateTypeOK
  <2>2. PICK r \in Nat : r = runtime
    BY <2>1
  <2>3. control' = [runtime |-> r, paused |-> FALSE]
    BY <1>2, <2>2
  <2> QED BY <2>1, <2>2, <2>3
<1>4. UpdateTypeOK'
  <2>1. Controlled'
    BY <1>1, <1>3 DEF UpdateTypeOK, Controlled
  <2> QED BY <1>1, <1>2, <2>1 DEF UpdateTypeOK, UpdatePlaces, Update!Forward, Update!Recovering
<1>5. Update!Switching /\ ~Update!Finished
  BY <1>1, <1>2 DEF UpdatePhased, Update!Recovering, Update!Switching, Update!SWITCH_PHASES, Update!Finished,
     Update!FINISHED_PHASES
<1>6. UpdateNumbered' /\ UpdatePhased'
  BY <1>1, <1>2, <1>3, <1>5 DEF UpdateNumbered, Requested, UpdatePhased, Update!Finished, Update!Recovering
<1>7. Journalled'
  BY <1>1, <1>2, <1>3 DEF Journalled, UpdatePhased, Update!Finished, Restores, Undone, Update!Switching,
     Update!Recovering
<1>8. Restores'
  BY <1>1, <1>2, <1>3 DEF Restores, Halted, Undone, Update!Switching
<1>9. ASSUME Safe
      PROVE  Safe'
  <2>1. app = None
    BY <1>2, <1>9 DEF Safe, Halted
  <2>2. data # None => data.format <= runtime
    <3>1. CASE worker = "start"
      <4>1. data # None => data.format <= control.runtime
        BY <1>9 DEF Safe
      <4>2. control.runtime \in {state.oldRuntime, state.id} /\ state.oldRuntime < state.id
        BY <1>1, <1>5 DEF Journalled, UpdateNumbered
      <4>3. data # None => data.format \in Nat
        BY <1>1 DEF UpdateTypeOK, Update!Copies
      <4> QED BY <1>1, <1>2, <3>1, <4>1, <4>2, <4>3, UpdateTyped
    <3>2. CASE worker = "rollback start"
      BY <1>1, <1>2, <1>5, <1>9, <3>2 DEF Safe, Restores, Undone, Journalled
    <3> QED BY <1>2, <3>1, <3>2
  <2>3. state.dataRestored => runtime = state.oldRuntime
    BY <1>1, <1>2 DEF Journalled, UpdatePhased
  <2>4. (Undone => Keeps(backup) /\ (backup # None <=> state.dataExisted))'
    BY <1>1, <1>9 DEF Safe, Undone, Keeps, Update!TurnsIn, Update!Switching
  <2>5. (~(Undone /\ state.phase \in {"rolling-back", "recovery-required"}) => Update!TurnsIn(data) = userTurns)'
    BY <1>1, <1>9 DEF Safe, Undone, Update!TurnsIn, Update!Switching
  <2> QED BY <1>1, <1>2, <1>3, <1>9, <2>1, <2>2, <2>3, <2>4, <2>5 DEF Safe, Halted, Update!Switching
<1>10. (stale \/ Safe)'
  BY <1>1, <1>9, StillSafe
<1> QED BY <1>4, <1>6, <1>7, <1>8, <1>10 DEF UpdateInv

\* The copy is made while no application runs.
LEMMA BackUpInv ==
  ASSUME Update!UpdateAssumption, UpdateInv, Update!BackUp
  PROVE  UpdateInv'
<1>1. /\ UpdatePhased /\ UpdateNumbered /\ Journalled /\ Restores /\ UpdateTypeOK /\ state # None
      /\ state.phase = "backing-up" /\ worker = "backup" /\ worker' = "start" /\ backup' = data
      /\ UNCHANGED <<request, control, runner, ctl, app, data, staged, quarantine, updates, userTurns,
                     faults, stale>>
  BY DEF UpdateInv, Update!BackUp, Update!history, UpdatePhased
<1>2. PICK s \in Update!Requests : s = state
  BY <1>1, UpdateTyped
<1>3. PICK t : t = [s EXCEPT !.phase = "starting", !.dataExisted = (data # None), !.newMayHaveStarted = TRUE]
  OBVIOUS
<1>4. /\ t \in Update!Requests /\ t.phase = "starting" /\ t.id = s.id /\ t.oldRuntime = s.oldRuntime
      /\ (t.dataExisted <=> data # None) /\ t.newMayHaveStarted /\ t.dataRestored = s.dataRestored
  BY <1>2, <1>3 DEF Update!Requests, Update!SWITCH_PHASES
<1>5. t # None /\ state' = t
  BY <1>2, <1>3, <1>4, UpdateNothing DEF Update!BackUp
<1>6. UpdateTypeOK'
  <2>1. Controlled'
    BY <1>1 DEF UpdateTypeOK, Controlled
  <2> QED BY <1>1, <1>4, <1>5, <2>1 DEF UpdateTypeOK, UpdatePlaces, Update!Forward
<1>7. Update!Switching /\ ~Update!Finished /\ ~state.dataRestored /\ ~state.newMayHaveStarted
      /\ control.runtime = state.oldRuntime
  BY <1>1 DEF Update!Switching, Update!SWITCH_PHASES, Update!Finished, Update!FINISHED_PHASES, Journalled
<1>8. Update!Switching' /\ ~Update!Finished' /\ Undone'
  BY <1>2, <1>4, <1>5, <1>7 DEF Undone, Update!Switching, Update!SWITCH_PHASES, Update!Finished,
     Update!FINISHED_PHASES
<1>9. UpdateNumbered' /\ UpdatePhased' /\ Journalled' /\ Restores'
  <2>1. ~Requested
    BY <1>1, <1>7 DEF UpdateNumbered
  <2>2. UpdateNumbered'
    BY <1>1, <1>2, <1>4, <1>5, <2>1 DEF UpdateNumbered, Requested
  <2>3. UpdatePhased' /\ Journalled'
    BY <1>1, <1>2, <1>4, <1>5, <1>7 DEF UpdatePhased, Journalled, Update!Recovering
  <2>4. Restores'
    BY <1>1, <1>8 DEF Restores, Halted
  <2> QED BY <2>2, <2>3, <2>4
<1>10. ASSUME Safe
       PROVE  Safe'
  <2>1. /\ app = None /\ Update!TurnsIn(data) = userTurns /\ (data # None => data.format <= state.oldRuntime)
    BY <1>1, <1>7, <1>10 DEF Safe, Halted, Undone
  <2>2. data # None => data # Partial
    BY <1>1, UpdateNothing DEF UpdateTypeOK
  <2>3. Keeps(backup)' /\ (backup # None <=> state.dataExisted)'
    BY <1>1, <1>2, <1>4, <1>5, <2>1, <2>2 DEF Keeps, Update!TurnsIn
  <2> QED BY <1>1, <1>2, <1>4, <1>5, <1>7, <1>10, <2>1, <2>3 DEF Safe, Update!TurnsIn, Update!Switching
<1>11. (stale \/ Safe)'
  BY <1>1, <1>10, StillSafe
<1> QED BY <1>6, <1>9, <1>11 DEF UpdateInv

\* A step of the recovery of the data, between the copies.
LEMMA RecoveryInv ==
  ASSUME Update!UpdateAssumption, UpdateInv, Update!restoreData \/ Update!Stage \/ Update!SetAside
         \/ Update!PutBack
  PROVE  UpdateInv'
<1>1. /\ UpdatePhased /\ UpdateNumbered /\ Journalled /\ Restores /\ UpdateTypeOK /\ state # None
      /\ state.phase = "rolling-back" /\ worker \in {"restore", "stage", "set aside", "put back"}
      /\ UNCHANGED <<request, state, control, runner, ctl, app, backup, updates, userTurns, faults, stale>>
  BY DEF UpdateInv, Update!restoreData, Update!Stage, Update!SetAside, Update!PutBack, Update!history,
     Update!files, UpdatePhased, Update!Recovering
<1>2. Update!Switching /\ ~Update!Finished /\ control.paused
  BY <1>1 DEF Update!Switching, Update!SWITCH_PHASES, Update!Finished, Update!FINISHED_PHASES, Restores, Halted
<1>3. ASSUME worker' \in {"stage", "set aside", "put back", "restored", "rollback start"},
             staged' \in Update!Copies \cup {None, Partial}, data' \in Update!Copies \cup {None},
             quarantine' \in Update!Copies \cup {None},
             worker' = "rollback start" <=> ~Undone,
             worker' = "stage" => state.dataExisted,
             worker' = "set aside" /\ state.dataExisted => staged' = backup,
             worker' = "put back" => state.dataExisted /\ staged' = backup,
             data' = data \/ (Undone /\ data' \in {None, backup}),
             worker' = "put back" => data' = None,
             Safe /\ worker' = "restored" => data' = backup
      PROVE  UpdateInv'
  <2>1. UpdateTypeOK'
    <3>1. Controlled'
      BY <1>1 DEF UpdateTypeOK, Controlled
    <3> QED BY <1>1, <1>3, <3>1 DEF UpdateTypeOK, UpdatePlaces, Update!Recovering
  <2>2. UpdateNumbered' /\ UpdatePhased' /\ Journalled'
    BY <1>1, <1>2, <1>3 DEF UpdateNumbered, Requested, UpdatePhased, Journalled, Update!Recovering,
       Update!Finished, Update!Switching
  <2>3. Undone' <=> Undone
    BY <1>1 DEF Undone, Update!Switching
  <2>4. Restores'
    BY <1>1, <1>2, <1>3, <2>3 DEF Restores, Halted
  <2>5. ASSUME Safe
        PROVE  Safe'
    <3>1. app = None
      BY <1>1, <2>5 DEF Safe, Halted
    <3>2. (Undone => Keeps(backup) /\ (backup # None <=> state.dataExisted))'
      BY <1>1, <2>3, <2>5 DEF Safe, Keeps, Update!TurnsIn
    <3>3. (data # None => data.format <= control.runtime)'
      <4>1. data # None => data.format <= control.runtime
        BY <2>5 DEF Safe
      <4>2. Undone => (backup # None => backup.format <= control.runtime)
        <5>1. Undone => (backup # None => backup.format <= state.oldRuntime)
          BY <2>5 DEF Safe, Keeps
        <5>2. control.runtime \in {state.oldRuntime, state.id} /\ state.oldRuntime < state.id
          BY <1>1, <1>2 DEF Journalled, UpdateNumbered
        <5>3. backup # None => backup.format \in Nat
          BY <1>1 DEF UpdateTypeOK, Update!Copies
        <5>4. state.oldRuntime \in Nat /\ state.id \in Nat
          BY <1>1, UpdateTyped
        <5>5. state.oldRuntime <= control.runtime
          BY <5>2, <5>4
        <5>6. control.runtime \in Nat
          BY <5>2, <5>4
        <5> QED BY <5>1, <5>3, <5>4, <5>5, <5>6
      <4> QED BY <1>1, <1>3, <4>1, <4>2
    <3>4. ~Undone => data' = data
      BY <1>3
    <3>5. (~(Undone /\ state.phase \in {"rolling-back", "recovery-required"}) => Update!TurnsIn(data) = userTurns)'
      BY <1>1, <2>3, <2>5, <3>4 DEF Safe, Update!TurnsIn
    <3>6. (Update!Switching /\ state.dataRestored =>
           /\ data # None => data.format <= state.oldRuntime
           /\ (control.paused /\ app = None) \/ control.runtime = state.oldRuntime)'
      BY <1>1, <2>5, <3>4 DEF Safe, Undone, Update!Switching
    <3> QED BY <1>1, <1>3, <2>5, <3>1, <3>2, <3>3, <3>5, <3>6 DEF Safe
  <2>6. (stale \/ Safe)'
    BY <1>1, <2>5, StillSafe
  <2> QED BY <2>1, <2>2, <2>4, <2>6 DEF UpdateInv
<1>4. staged \in Update!Copies \cup {None, Partial} /\ data \in Update!Copies \cup {None}
      /\ quarantine \in Update!Copies \cup {None}
      /\ backup \in Update!Copies \cup {None}
  BY <1>1 DEF UpdateTypeOK
<1>5. CASE Update!restoreData
  <2>1. UNCHANGED <<data, quarantine>> /\ worker = "restore"
    BY <1>5 DEF Update!restoreData
  <2>2. CASE ~Undone /\ worker' = "rollback start" /\ UNCHANGED staged
    BY <1>3, <1>4, <2>1, <2>2
  <2>3. CASE Undone /\ ~state.dataExisted /\ worker' = "set aside" /\ UNCHANGED staged
    BY <1>3, <1>4, <2>1, <2>3
  <2>4. CASE Undone /\ state.dataExisted /\ data = backup /\ worker' = "restored" /\ UNCHANGED staged
    BY <1>3, <1>4, <2>1, <2>4
  <2>5. CASE Undone /\ state.dataExisted /\ staged = backup /\ worker' = "set aside" /\ staged' = staged
    BY <1>3, <1>4, <2>1, <2>5
  <2>6. CASE Undone /\ state.dataExisted /\ staged # backup /\ worker' = "stage" /\ staged' = None
    BY <1>3, <1>4, <2>1, <2>6
  <2>7. Undone <=> state.newMayHaveStarted /\ ~state.dataRestored
    BY <1>2 DEF Undone
  <2> QED BY <1>5, <2>2, <2>3, <2>4, <2>5, <2>6, <2>7 DEF Update!restoreData
<1>6. CASE Update!Stage
  <2>1. UNCHANGED <<data, quarantine>> /\ Undone /\ state.dataExisted
    BY <1>1, <1>6 DEF Update!Stage, Restores
  <2>2. CASE staged' = Partial /\ worker' = "stage"
    BY <1>3, <1>4, <2>1, <2>2
  <2>3. CASE staged' = backup /\ worker' = "set aside"
    BY <1>3, <1>4, <2>1, <2>3
  <2> QED BY <1>6, <2>2, <2>3 DEF Update!Stage
<1>7. CASE Update!SetAside
  <2>1. /\ Undone /\ (state.dataExisted => staged = backup) /\ staged' = staged /\ data' = None
        /\ quarantine' \in {quarantine, data}
        /\ worker' = IF state.dataExisted THEN "put back" ELSE "restored"
    BY <1>1, <1>7 DEF Update!SetAside, Restores
  <2>2. Safe /\ ~state.dataExisted => backup = None
    BY <2>1 DEF Safe
  <2> QED BY <1>3, <1>4, <2>1, <2>2
<1>8. CASE Update!PutBack
  <2>1. /\ Undone /\ state.dataExisted /\ staged = backup /\ data' = staged /\ staged' = None
        /\ quarantine' = quarantine /\ worker' = "restored"
    BY <1>1, <1>8 DEF Update!PutBack, Restores
  <2> QED BY <1>3, <1>4, <2>1
<1> QED BY <1>5, <1>6, <1>7, <1>8

LEMMA RestoredInv ==
  ASSUME Update!UpdateAssumption, UpdateInv, Update!Restored
  PROVE  UpdateInv'
<1>1. /\ UpdatePhased /\ UpdateNumbered /\ Journalled /\ Restores /\ UpdateTypeOK /\ state # None /\ Undone
      /\ state.phase = "rolling-back" /\ worker = "restored" /\ worker' = "rollback start"
      /\ control.paused
      /\ UNCHANGED <<request, control, runner, ctl, app, data, backup, staged, quarantine, updates, userTurns,
                     faults, stale>>
  BY DEF UpdateInv, Update!Restored, Update!history, Update!copies, UpdatePhased, Update!Recovering, Restores,
     Halted
<1>2. PICK s \in Update!Requests : s = state
  BY <1>1, UpdateTyped
<1>3. PICK t : t = [s EXCEPT !.dataRestored = TRUE]
  OBVIOUS
<1>4. /\ t \in Update!Requests /\ t.phase = s.phase /\ t.id = s.id /\ t.oldRuntime = s.oldRuntime
      /\ t.dataRestored /\ t.newMayHaveStarted = s.newMayHaveStarted /\ t.dataExisted = s.dataExisted
  BY <1>2, <1>3 DEF Update!Requests
<1>5. t # None /\ state' = t
  BY <1>2, <1>3, <1>4, UpdateNothing DEF Update!Restored
<1>6. UpdateTypeOK'
  <2>1. Controlled'
    BY <1>1 DEF UpdateTypeOK, Controlled
  <2> QED BY <1>1, <1>4, <1>5, <2>1 DEF UpdateTypeOK, UpdatePlaces, Update!Recovering
<1>7. Update!Switching' /\ ~Undone' /\ ~Update!Finished /\ ~Update!Finished'
  BY <1>1, <1>2, <1>4, <1>5 DEF Undone, Update!Switching, Update!SWITCH_PHASES, Update!Finished,
     Update!FINISHED_PHASES
<1>8. UpdateNumbered' /\ UpdatePhased' /\ Journalled' /\ Restores'
  <2>1. UpdateNumbered'
    BY <1>1, <1>2, <1>4, <1>5, <1>7 DEF UpdateNumbered, Requested
  <2>2. UpdatePhased' /\ Journalled'
    BY <1>1, <1>2, <1>4, <1>5, <1>7 DEF UpdatePhased, Journalled, Update!Recovering, Undone
  <2>3. Restores'
    BY <1>1, <1>7 DEF Restores, Halted
  <2> QED BY <2>1, <2>2, <2>3
<1>9. ASSUME Safe
      PROVE  Safe'
  <2>1. app = None /\ data = backup /\ Keeps(backup)
    BY <1>1, <1>9 DEF Safe, Halted
  <2>2. Update!TurnsIn(data)' = userTurns' /\ (data # None => data.format <= state.oldRuntime)
    BY <1>1, <2>1 DEF Keeps, Update!TurnsIn
  <2> QED BY <1>1, <1>2, <1>4, <1>5, <1>7, <1>9, <2>1, <2>2 DEF Safe
<1>10. (stale \/ Safe)'
  BY <1>1, <1>9, StillSafe
<1> QED BY <1>6, <1>8, <1>10 DEF UpdateInv

-----------------------------------------------------------------------------
(* The others: requests, the controller, the application.                  *)

LEMMA RequestInv ==
  ASSUME Update!UpdateAssumption, UpdateInv, Update!enqueueUpdate \/ Update!RequestWritten
  PROVE  UpdateInv'
<1>1. /\ UpdatePhased /\ UpdateNumbered /\ Journalled /\ Restores /\ UpdateTypeOK
      /\ UNCHANGED <<state, control, runner, worker, ctl, app, data, backup, staged, quarantine, userTurns,
                     faults, stale>>
  BY DEF UpdateInv, Update!enqueueUpdate, Update!RequestWritten, Update!history, Update!copies
<1>2. UpdatePhased' /\ Journalled' /\ Restores'
  BY <1>1 DEF UpdatePhased, Journalled, Restores, Update!Finished, Update!Switching, Undone
<1>3. Safe => Safe'
  BY <1>1 DEF Safe, Keeps, Update!TurnsIn, Undone, Update!Switching
<1>4. ~Requested /\ worker # "unlink"
  BY <1>1, UpdateNothing DEF Update!enqueueUpdate, Update!RequestWritten, Requested, UpdateNumbered
<1>5. Controlled' /\ updates \in Nat /\ control.runtime \in Nat
  BY <1>1 DEF UpdateTypeOK, Controlled
<1>6. ASSUME request' \in {None, Partial}, updates' = updates
      PROVE  UpdateTypeOK' /\ UpdateNumbered'
  BY <1>1, <1>4, <1>5, <1>6 DEF UpdateTypeOK, UpdateNumbered, Requested
<1>7. ASSUME NEW prepareOnly \in BOOLEAN, updates' = updates + 1, Update!Finished,
             request' = [id |-> updates + 1, phase |-> "queued",
                         prepareOnly |-> prepareOnly, oldRuntime |-> control.runtime,
                         dataExisted |-> FALSE, newMayHaveStarted |-> FALSE, dataRestored |-> FALSE]
      PROVE  UpdateTypeOK' /\ UpdateNumbered'
  <2>1. PICK n \in Nat, m \in Nat : n = updates + 1 /\ m = control.runtime
    <3>1. updates + 1 \in Nat
      BY <1>5
    <3> QED BY <1>5, <3>1
  <2>2. request' = [id |-> n, phase |-> "queued", prepareOnly |-> prepareOnly, oldRuntime |-> m,
                    dataExisted |-> FALSE, newMayHaveStarted |-> FALSE, dataRestored |-> FALSE]
    BY <1>7, <2>1
  <2>3. request' \in Update!Requests
    BY <2>2 DEF Update!Requests
  <2>4. /\ request'.id = n /\ request'.phase = "queued" /\ request'.oldRuntime = m
        /\ ~request'.newMayHaveStarted /\ ~request'.dataRestored
    BY <2>2
  <2>5. UpdateTypeOK'
    BY <1>1, <1>5, <1>7, <2>3 DEF UpdateTypeOK
  <2>6. control.runtime <= updates /\ (state # None => state.id <= updates /\ state.oldRuntime < state.id)
    BY <1>1 DEF UpdateNumbered
  <2>7. m <= n /\ m < n /\ (state # None => state.id < n)
    BY <1>1, <1>5, <2>1, <2>6, UpdateTyped
  <2>8. state # None => state.id <= n
    BY <1>1, <2>1, <2>7, UpdateTyped
  <2> QED BY <1>1, <1>4, <1>7, <2>1, <2>4, <2>5, <2>6, <2>7, <2>8 DEF UpdateNumbered, Update!Finished
<1>8. UpdateTypeOK' /\ UpdateNumbered'
  <2>1. CASE Update!enqueueUpdate
    BY <1>6, <2>1 DEF Update!enqueueUpdate, Update!history
  <2>2. CASE Update!RequestWritten
    BY <1>6, <1>7, <2>2 DEF Update!RequestWritten
  <2> QED BY <2>1, <2>2
<1>9. (stale \/ Safe)'
  BY <1>1, <1>3, StillSafe
<1> QED BY <1>2, <1>8, <1>9 DEF UpdateInv

\* The controller or the application acts: the files are the worker's.
Acts ==
  /\ UNCHANGED <<request, state, control, worker, backup, staged, quarantine, updates>>
  /\ Controlled'
  /\ app' \in Update!Applications \cup {None} /\ data' \in Update!Copies \cup {None}
  /\ userTurns' \in Nat /\ faults' \in Nat /\ stale' \in BOOLEAN

LEMMA ActsInv ==
  ASSUME UpdateInv, Acts, ~stale' => ~stale /\ (Safe => Safe')
  PROVE  UpdateInv'
<1>1. UpdateTypeOK'
  BY DEF UpdateInv, UpdateTypeOK, Acts
<1>2. UpdatePhased' /\ UpdateNumbered' /\ Journalled' /\ Restores'
  <2>1. /\ UNCHANGED <<request, state, control, worker, backup, staged, updates>>
        /\ UpdatePhased /\ UpdateNumbered /\ Journalled /\ Restores
    BY DEF UpdateInv, Acts
  <2>2. UpdatePhased' /\ UpdateNumbered'
    BY <2>1 DEF UpdatePhased, UpdateNumbered, Requested, Update!Finished
  <2>3. Journalled' /\ Restores'
    BY <2>1 DEF Journalled, Restores, Update!Finished, Update!Switching, Undone
  <2> QED BY <2>2, <2>3
<1>3. (stale \/ Safe)'
  BY DEF UpdateInv
<1> QED BY <1>1, <1>2, <1>3 DEF UpdateInv

\* What an application that changes, or is gone, may not be.
LEMMA AppInv ==
  ASSUME Update!UpdateAssumption, UpdateInv, Acts, UNCHANGED <<data, userTurns, stale>>,
         app' # None => app # None /\ app'.runtime = app.runtime /\ (app'.busy => ~app'.paused),
         app' # None /\ Update!Switching /\ state.newMayHaveStarted /\ app.paused => app'.paused
  PROVE  UpdateInv'
<1>1. ASSUME Safe
      PROVE  Safe'
  BY <1>1 DEF Acts, Safe, Keeps, Update!TurnsIn, Undone, Update!Switching
<1>2. ~stale' => ~stale
  OBVIOUS
<1> QED BY <1>1, <1>2, ActsInv

LEMMA ControllerInv ==
  ASSUME Update!UpdateAssumption, UpdateInv,
         Update!ControllerStart \/ Update!Round \/ Update!stopApp \/ Update!Launch \/ Update!ControllerDies
  PROVE  UpdateInv'
<1>1. UpdateTypeOK /\ Controlled
  BY DEF UpdateInv, UpdateTypeOK
<1>2. /\ UNCHANGED <<request, state, control, worker, data, backup, staged, quarantine, updates, userTurns,
                     stale>>
      /\ faults' \in {faults, faults + 1}
  BY DEF Update!ControllerStart, Update!Round, Update!stopApp, Update!Launch, Update!ControllerDies, Update!Fault,
     Update!history, Update!copies, Update!files
<1>3. /\ ctl' \in [pc : {"down", "idle", "stop", "launch", "spawn"}, runtime : Nat]
      /\ runner' \in [runtime : Nat, stopped : BOOLEAN, error : BOOLEAN]
  <2> USE <1>1 DEF Controlled
  <2>1. CASE Update!ControllerStart
    BY <2>1 DEF Update!ControllerStart
  <2>2. CASE Update!Round
    <3>1. CASE ctl' = [ctl EXCEPT !.pc = "stop"] /\ UNCHANGED runner
      BY <3>1
    <3>2. CASE ctl' = [pc |-> "launch", runtime |-> control.runtime] /\ UNCHANGED runner
      <4>1. PICK r \in Nat : r = control.runtime
        OBVIOUS
      <4>2. ctl' = [pc |-> "launch", runtime |-> r]
        BY <3>2, <4>1
      <4> QED BY <3>2, <4>2
    <3>3. CASE runner' = [runner EXCEPT !.error = FALSE] /\ UNCHANGED ctl
      BY <3>3
    <3> QED BY <2>2, <3>1, <3>2, <3>3 DEF Update!Round
  <2>3. CASE Update!stopApp
    BY <2>3 DEF Update!stopApp
  <2>4. CASE Update!Launch
    BY <2>4 DEF Update!Launch
  <2>5. CASE Update!ControllerDies
    BY <2>5 DEF Update!ControllerDies, Update!files
  <2> QED BY <2>1, <2>2, <2>3, <2>4, <2>5
<1>4. \/ app' = app \/ app' = None
      \/ app # None /\ app' = [app EXCEPT !.paused = @ /\ Update!Switching]
  BY DEF Update!ControllerStart, Update!Round, Update!stopApp, Update!Launch, Update!ControllerDies,
     Update!verificationPending
<1>5. /\ app' \in Update!Applications \cup {None}
      /\ app' # None => app # None /\ app'.runtime = app.runtime
                        /\ (Update!Switching /\ app.paused => app'.paused)
                        /\ (app'.busy <=> app.busy) /\ (app'.paused => app.paused)
  <2>1. CASE app' \in {app, None}
    BY <1>1, <2>1 DEF UpdateTypeOK
  <2>2. CASE app # None /\ app' = [app EXCEPT !.paused = @ /\ Update!Switching]
    <3>1. PICK a \in Update!Applications : a = app
      BY <1>1, <2>2 DEF UpdateTypeOK
    <3>2. PICK b \in BOOLEAN : b <=> (a.paused /\ Update!Switching)
      OBVIOUS
    <3>3. (a.paused /\ Update!Switching) = b
      BY <3>2, Zenon
    <3>4. app' = [a EXCEPT !.paused = b]
      BY <2>2, <3>1, <3>3
    <3>5. app' \in Update!Applications /\ app'.runtime = a.runtime /\ app'.busy = a.busy /\ (app'.paused <=> b)
      BY <3>4 DEF Update!Applications
    <3> QED BY <2>2, <3>1, <3>2, <3>5
  <2> QED BY <1>4, <2>1, <2>2
<1>6. Acts
  <2>1. Controlled'
    BY <1>1, <1>2, <1>3 DEF Controlled
  <2> QED BY <1>1, <1>2, <1>5, <2>1 DEF Acts, UpdateTypeOK
<1>7. ASSUME Safe
      PROVE  Safe'
  BY <1>2, <1>5, <1>7 DEF Safe, Keeps, Update!TurnsIn, Undone, Update!Switching
<1>8. ~stale' => ~stale
  BY <1>2
<1> QED BY <1>6, <1>7, <1>8, ActsInv

\* What is launched as ordered is what the data belongs to.
LEMMA UpdateSpawnInv ==
  ASSUME Update!UpdateAssumption, UpdateInv, Update!Spawn
  PROVE  UpdateInv'
<1>1. UpdateTypeOK /\ Controlled /\ Restores /\ Journalled
  BY DEF UpdateInv, UpdateTypeOK
<1>2. /\ UNCHANGED <<request, state, control, runner, worker, data, backup, staged, quarantine, updates,
                     userTurns, faults>>
      /\ ctl' = [ctl EXCEPT !.pc = "idle"]
  BY DEF Update!Spawn, Update!copies, Update!files
<1>3. PICK r \in Nat, b \in BOOLEAN : r = ctl.runtime /\ (b <=> Update!Switching)
  BY <1>1 DEF Controlled
<1>4. Update!Switching = b
  <2>1. Update!Switching \in BOOLEAN
    BY DEF Update!Switching
  <2> QED BY <1>3, <2>1
<1>5. app' = [runtime |-> r, paused |-> b, busy |-> FALSE]
  BY <1>3, <1>4 DEF Update!Spawn, Update!verificationPending
<1>6. app' \in Update!Applications /\ app'.runtime = r /\ (app'.paused <=> b) /\ ~app'.busy
  BY <1>5 DEF Update!Applications
<1>7. stale' \in BOOLEAN /\ (~stale' => ~stale /\ Update!MayRun /\ r = control.runtime)
  <2>1. stale' = (stale \/ ~Update!MayRun \/ ctl.runtime # control.runtime)
    BY DEF Update!Spawn
  <2>2. stale' \in BOOLEAN
    BY <2>1, Zenon
  <2> QED BY <1>3, <2>1, <2>2
<1>8. Acts
  <2>1. Controlled'
    BY <1>1, <1>2 DEF Controlled
  <2> QED BY <1>1, <1>2, <1>6, <1>7, <2>1 DEF Acts, UpdateTypeOK
<1>9. ASSUME Safe, ~stale'
      PROVE  Safe'
  <2>1. ~control.paused /\ r = control.runtime /\ worker \notin Halted
    BY <1>1, <1>7, <1>9 DEF Update!MayRun, Restores
  <2> QED BY <1>2, <1>3, <1>6, <1>9, <2>1 DEF Safe, Keeps, Update!TurnsIn, Undone, Update!Switching, Halted
<1> QED BY <1>7, <1>8, <1>9, ActsInv

\* The application creates or migrates its data, and starts and completes turns.
LEMMA OpenedData ==
  ASSUME Update!UpdateAssumption, UpdateTypeOK, app # None
  PROVE  /\ Update!Opened \in Update!Copies /\ Update!Opened.turns = Update!TurnsIn(data)
         /\ Update!Opened.format = IF data = None THEN app.runtime ELSE Update!Higher(data.format, app.runtime)
<1>1. PICK a \in Nat : a = app.runtime
  BY DEF UpdateTypeOK, Update!Applications
<1>2. CASE data = None
  <2>1. Update!Opened = [format |-> a, turns |-> 0]
    BY <1>1, <1>2 DEF Update!Opened
  <2> QED BY <1>1, <1>2, <2>1 DEF Update!Copies, Update!TurnsIn
<1>3. CASE data # None
  <2>1. PICK d \in Update!Copies : d = data /\ d \notin {None, Partial}
    BY <1>3, UpdateNothing DEF UpdateTypeOK
  <2>2. PICK h \in Nat : h = Update!Higher(d.format, a)
    BY DEF Update!Higher, Update!Copies
  <2>3. Update!Opened = [d EXCEPT !.format = h]
    BY <1>1, <2>1, <2>2 DEF Update!Opened
  <2>4. Update!Opened \in Update!Copies /\ Update!Opened.turns = d.turns /\ Update!Opened.format = h
    BY <2>3 DEF Update!Copies
  <2> QED BY <1>1, <1>3, <2>1, <2>2, <2>4 DEF Update!TurnsIn
<1> QED BY <1>2, <1>3

\* New data is in a format that the selected runtime can read.
LEMMA WritesInv ==
  ASSUME Update!UpdateAssumption, UpdateInv, Acts, app # None, UNCHANGED <<control, stale>>,
         data' \in Update!Copies,
         data'.format = Update!Opened.format,
         app' # None /\ app'.runtime = app.runtime /\ app'.paused = app.paused /\ (app'.busy => app.busy),
         \/ Update!TurnsIn(data') = userTurns' /\ userTurns' = userTurns + 1 /\ app.busy
         \/ Update!TurnsIn(data') = Update!TurnsIn(data) /\ userTurns' = userTurns
  PROVE  UpdateInv'
<1>1. UpdateTypeOK /\ Journalled /\ Restores
  BY DEF UpdateInv
<1>2. /\ Update!Opened.format = IF data = None THEN app.runtime ELSE Update!Higher(data.format, app.runtime)
  BY <1>1, OpenedData
<1>3. ASSUME Safe
      PROVE  Safe'
  <2>1. UNCHANGED <<state, worker, backup, control>>
    BY DEF Acts
  <2>2. app.runtime = control.runtime /\ (app.busy => ~app.paused) /\ worker \notin Halted
    BY <1>3 DEF Safe
  <2>3. data'.format = control.runtime
    <3>1. data # None => data.format <= control.runtime /\ data.format \in Nat /\ control.runtime \in Nat
      BY <1>1, <1>3 DEF Safe, UpdateTypeOK, Update!Copies, Controlled
    <3>2. data # None => ~(data.format > control.runtime)
      BY <3>1
    <3> QED BY <1>2, <2>2, <3>2 DEF Update!Higher
  <2>4. control.runtime \in Nat
    BY <1>1 DEF UpdateTypeOK, Controlled
  <2>5. Undone => userTurns' = userTurns
    <3>1. Undone => app.paused
      BY <1>3 DEF Safe, Undone
    <3> QED BY <2>2, <3>1
  <2>6. Undone' => Undone
    BY <2>1 DEF Undone, Update!Switching
  <2>7. (Undone => Keeps(backup) /\ (backup # None <=> state.dataExisted))'
    BY <1>3, <2>1, <2>5, <2>6 DEF Safe, Keeps, Update!TurnsIn
  <2>8. (Update!Switching /\ state.dataRestored =>
          /\ data # None => data.format <= state.oldRuntime
          /\ (control.paused /\ app = None) \/ control.runtime = state.oldRuntime)'
    <3>1. Update!Switching /\ state.dataRestored => control.runtime = state.oldRuntime
      BY <1>3 DEF Safe
    <3>2. (Update!Switching /\ state.dataRestored)' <=> Update!Switching /\ state.dataRestored
      BY <2>1 DEF Update!Switching
    <3>3. Update!Switching /\ state.dataRestored => data'.format <= state.oldRuntime
      BY <2>3, <2>4, <3>1
    <3> QED BY <2>1, <3>1, <3>2, <3>3
  <2>9. (~(Undone /\ state.phase \in {"rolling-back", "recovery-required"}) => Update!TurnsIn(data) = userTurns)'
    <3>1. Update!TurnsIn(data') = Update!TurnsIn(data)'
      BY DEF Update!TurnsIn
    <3>2. ~(Undone /\ state.phase \in {"rolling-back", "recovery-required"}) => Update!TurnsIn(data) = userTurns
      BY <1>3 DEF Safe
    <3>3. Undone' <=> Undone
      BY <2>1 DEF Undone, Update!Switching
    <3> QED BY <2>1, <3>1, <3>2, <3>3
  <2>10. (Update!Switching /\ state.newMayHaveStarted /\ app # None => app.paused)'
    BY <1>3, <2>1 DEF Safe, Update!Switching
  <2>11. (app # None => app.runtime = control.runtime /\ (app.busy => ~app.paused))'
    BY <2>1, <2>2
  <2>12. (data # None => data.format <= control.runtime)'
    BY <2>1, <2>3, <2>4
  <2>13. worker' \notin Halted /\ worker' # "put back" /\ worker' # "restored"
    BY <2>1, <2>2 DEF Halted
  <2> QED BY <2>7, <2>8, <2>9, <2>10, <2>11, <2>12, <2>13 DEF Safe
<1> QED BY <1>3, ActsInv

LEMMA ApplicationInv ==
  ASSUME Update!UpdateAssumption, UpdateInv,
         Update!Migrate \/ Update!TurnStarts \/ Update!TurnEnds \/ Update!AppDies
  PROVE  UpdateInv'
<1>1. UpdateTypeOK /\ Controlled /\ app # None /\ app \in Update!Applications
  BY DEF UpdateInv, UpdateTypeOK, Update!Migrate, Update!TurnStarts, Update!TurnEnds, Update!AppDies
<1>2. /\ UNCHANGED <<request, state, control, runner, ctl, worker, backup, staged, quarantine, updates,
                     stale>>
      /\ faults' \in {faults, faults + 1}
  BY DEF Update!Migrate, Update!TurnStarts, Update!TurnEnds, Update!AppDies, Update!Fault, Update!history,
     Update!copies, Update!files
<1>3. Controlled'
  BY <1>1, <1>2 DEF Controlled
<1>4. PICK a \in Update!Applications : a = app
  BY <1>1
<1>5. CASE Update!Migrate
  <2>1. app' = app /\ data' = Update!Opened /\ userTurns' = userTurns
    BY <1>5 DEF Update!Migrate, Update!history
  <2>2. data' \in Update!Copies /\ Update!TurnsIn(data') = Update!TurnsIn(data)
    BY <1>1, <2>1, OpenedData, UpdateNothing DEF Update!TurnsIn
  <2>3. Acts
    BY <1>1, <1>2, <1>3, <2>1, <2>2 DEF Acts, UpdateTypeOK
  <2> QED BY <1>1, <1>2, <2>1, <2>2, <2>3, WritesInv
<1>6. CASE Update!TurnStarts
  <2>1. ~app.paused /\ app' = [a EXCEPT !.busy = TRUE] /\ UNCHANGED <<data, userTurns>>
    BY <1>4, <1>6 DEF Update!TurnStarts, Update!history
  <2>2. app' \in Update!Applications /\ app'.runtime = a.runtime /\ app'.paused = a.paused
    BY <2>1 DEF Update!Applications
  <2>3. Acts
    BY <1>1, <1>2, <1>3, <2>1, <2>2 DEF Acts, UpdateTypeOK
  <2> QED BY <1>1, <1>2, <1>4, <2>1, <2>2, <2>3, AppInv
<1>7. CASE Update!TurnEnds
  <2>1. /\ app.busy /\ app' = [a EXCEPT !.busy = FALSE] /\ userTurns' = userTurns + 1
        /\ data' = [Update!Opened EXCEPT !.turns = @ + 1]
    BY <1>4, <1>7 DEF Update!TurnEnds
  <2>2. app' \in Update!Applications /\ app'.runtime = a.runtime /\ app'.paused = a.paused /\ ~app'.busy
    BY <2>1 DEF Update!Applications
  <2>3. PICK d \in Update!Copies : d = Update!Opened /\ d.turns = Update!TurnsIn(data)
    BY <1>1, OpenedData
  <2>4. PICK n \in Nat : n = d.turns + 1
    BY DEF Update!Copies
  <2>5. data' = [d EXCEPT !.turns = n]
    BY <2>1, <2>3, <2>4
  <2>6. data' \in Update!Copies /\ data'.format = Update!Opened.format /\ data'.turns = Update!TurnsIn(data) + 1
    BY <2>3, <2>4, <2>5 DEF Update!Copies
  <2>7. Acts
    BY <1>1, <1>2, <1>3, <2>1, <2>2, <2>6 DEF Acts, UpdateTypeOK
  <2>8. UpdateInv /\ ~stale => Update!TurnsIn(data) = userTurns
    <3>1. Safe => ~(Update!Switching /\ state.newMayHaveStarted)
      BY <1>1, <2>1 DEF Safe
    <3>2. Safe => Update!TurnsIn(data) = userTurns
      BY <3>1 DEF Safe, Undone
    <3> QED BY <3>2 DEF UpdateInv
  <2>9. CASE stale
    BY <1>2, <2>7, <2>9, ActsInv
  <2>10. CASE ~stale
    <3>1. Update!TurnsIn(data') = userTurns'
      BY <2>1, <2>6, <2>8, <2>10, UpdateNothing DEF Update!TurnsIn
    <3> QED BY <1>1, <1>2, <1>4, <2>1, <2>2, <2>6, <2>7, <3>1, UpdateNothing, WritesInv
  <2> QED BY <2>9, <2>10
<1>8. CASE Update!AppDies
  <2>1. app' = None /\ UNCHANGED <<data, userTurns>>
    BY <1>8 DEF Update!AppDies
  <2>2. Acts
    BY <1>1, <1>2, <1>3, <2>1 DEF Acts, UpdateTypeOK
  <2> QED BY <1>2, <2>1, <2>2, AppInv
<1> QED BY <1>5, <1>6, <1>7, <1>8

-----------------------------------------------------------------------------
(* The theorems.                                                           *)

LEMMA UpdateInitInv ==
  ASSUME Update!UpdateAssumption, Update!Init
  PROVE  UpdateInv
<1>1. /\ request = None /\ state = None /\ worker = "idle" /\ app = None
      /\ backup = None /\ staged = None /\ quarantine = None
      /\ updates = 0 /\ userTurns = 0 /\ faults = 0 /\ stale = FALSE
      /\ control = [runtime |-> 0, paused |-> FALSE]
      /\ runner = [runtime |-> 0, stopped |-> TRUE, error |-> FALSE]
      /\ ctl = [pc |-> "down", runtime |-> 0]
  BY DEF Update!Init
<1>2. Controlled /\ control.runtime = 0
  BY <1>1 DEF Controlled
<1>3. data # None => data \in Update!Copies /\ data.format = 0 /\ data.turns = 0
  BY DEF Update!Init, Update!Copies
<1>4. UpdateTypeOK
  BY <1>1, <1>2, <1>3 DEF UpdateTypeOK, UpdatePlaces
<1>5. UpdatePhased /\ UpdateNumbered /\ Journalled /\ Restores
  BY <1>1, <1>2 DEF UpdatePhased, UpdateNumbered, Requested, Journalled, Restores, Halted, Update!Recovering
<1>6. Safe
  <2>1. Update!TurnsIn(data) = 0 /\ (data # None => data.format <= 0)
    BY <1>3 DEF Update!TurnsIn
  <2> QED BY <1>1, <1>2, <2>1 DEF Safe, Undone, Update!Switching, Halted
<1> QED BY <1>4, <1>5, <1>6 DEF UpdateInv

LEMMA UpdateInvStep ==
  ASSUME Update!UpdateAssumption, UpdateInv, [Update!Next]_Update!vars
  PROVE  UpdateInv'
<1>1. CASE Update!enqueueUpdate \/ Update!RequestWritten
  BY <1>1, RequestInv
<1>2. CASE Update!WorkerStart \/ Update!Refused \/ Update!StepFails \/ Update!WorkerDies
  BY <1>2, ExceptionInv
<1>3. CASE Update!claimRequest \/ Update!Unlink \/ Update!execute
  BY <1>3, ClaimInv, UnlinkInv, ExecuteInv
<1>4. CASE Update!Prepared \/ Update!Started \/ Update!Verified \/ Update!Stopped
  BY <1>4, ForwardInv, StoppedInv
<1>5. CASE Update!pauseManagedServer \/ Update!BackUp \/ Update!resumeManagedServer
  BY <1>5, PauseInv, BackUpInv, ResumeInv
<1>6. CASE Update!BeginRollback \/ Update!GiveUp \/ Update!Fail
  BY <1>6, EndInv
<1>7. CASE Update!restoreData \/ Update!Stage \/ Update!SetAside \/ Update!PutBack \/ Update!Restored
  BY <1>7, RecoveryInv, RestoredInv
<1>8. CASE Update!ControllerStep \/ Update!ControllerDies
  BY <1>8, ControllerInv, UpdateSpawnInv DEF Update!ControllerStep
<1>9. CASE Update!Migrate \/ Update!TurnStarts \/ Update!TurnEnds \/ Update!AppDies
  BY <1>9, ApplicationInv
<1>10. CASE UNCHANGED Update!vars
  <2>1. UNCHANGED <<request, state, control, runner, worker, ctl, app, data, backup, staged, quarantine,
                    updates, userTurns, faults, stale>>
    BY <1>10 DEF Update!vars, Update!files, Update!copies, Update!history
  <2>2. UpdateTypeOK /\ Controlled
    BY DEF UpdateInv, UpdateTypeOK
  <2>3. Controlled'
    BY <2>1, <2>2 DEF Controlled
  <2>4. Acts
    BY <2>1, <2>2, <2>3 DEF Acts, UpdateTypeOK
  <2>5. Safe => Safe'
    BY <2>1 DEF Safe, Keeps, Update!TurnsIn, Undone, Update!Switching
  <2> QED BY <2>1, <2>4, <2>5, ActsInv
<1> QED BY <1>1, <1>2, <1>3, <1>4, <1>5, <1>6, <1>7, <1>8, <1>9, <1>10 DEF Update!Next, Update!WorkerStep

LEMMA UpdateInvSays ==
  ASSUME UpdateInv
  PROVE  Update!DataIsSafe
<1>1. CASE stale
  BY <1>1 DEF Update!DataIsSafe, Update!UserDataIsSafe, Update!RunsOnItsData
<1>2. CASE Safe
  <2>1. Update!UserDataIsSafe
    <3>1. CASE Undone
      BY <1>2, <3>1 DEF Update!UserDataIsSafe, Safe, Undone, Keeps
    <3>2. CASE ~Undone
      BY <1>2, <3>2 DEF Update!UserDataIsSafe, Safe, Undone
    <3> QED BY <3>1, <3>2
  <2>2. Update!RunsOnItsData
    BY <1>2 DEF Update!RunsOnItsData, Safe, Undone
  <2> QED BY <2>1, <2>2 DEF Update!DataIsSafe
<1> QED BY <1>1, <1>2 DEF UpdateInv

\* Whatever fails or dies between two steps of an update or of its recovery, the copy that
\* a recovery would go on with holds every completed turn, and no application runs on data
\* that a newer one has migrated, unless a launch was decided before a switch that it met
\* (control.ts:129, `stale`).
THEOREM UpdateKeepsData == Update!UpdateAssumption => (Update!Spec => []Update!DataIsSafe)
<1> SUFFICES ASSUME Update!UpdateAssumption
             PROVE  Update!Spec => []Update!DataIsSafe
  OBVIOUS
<1>1. Update!Init => UpdateInv
  BY UpdateInitInv
<1>2. UpdateInv /\ [Update!Next]_Update!vars => UpdateInv'
  BY UpdateInvStep
<1>3. UpdateInv => Update!DataIsSafe
  BY UpdateInvSays
<1> QED BY <1>1, <1>2, <1>3, PTL DEF Update!Spec

\* An update that came to an end is replaced by a later one only.
LEMMA FinalStep ==
  ASSUME Update!UpdateAssumption, UpdateInv, [Update!Next]_Update!vars, state # None,
         state.phase \in Update!FINISHED_PHASES, state' # state
  PROVE  state'.id > state.id
<1>1. UpdatePhased /\ UpdateNumbered /\ UpdateTypeOK /\ Update!Finished /\ ~Update!Switching
  BY DEF UpdateInv, Update!Finished, Update!Switching, Update!FINISHED_PHASES, Update!SWITCH_PHASES
<1>2. worker \in {"idle", "claim", "execute"}
  BY <1>1 DEF UpdatePhased, UpdateTypeOK, UpdatePlaces, Update!Forward, Update!Recovering, Update!FINISHED_PHASES,
     Update!SWITCH_PHASES
<1>3. Update!claimRequest
  <2>1. ASSUME Update!ControllerStep \/ Update!ControllerDies \/ Update!Migrate \/ Update!TurnStarts
               \/ Update!TurnEnds \/ Update!AppDies
               \/ Update!enqueueUpdate \/ Update!RequestWritten \/ Update!WorkerStart
        PROVE  FALSE
    BY <2>1 DEF Update!ControllerStep, Update!ControllerStart, Update!Round, Update!stopApp, Update!Launch,
       Update!Spawn, Update!ControllerDies,
      Update!Migrate, Update!TurnStarts, Update!TurnEnds, Update!AppDies, Update!enqueueUpdate,
      Update!RequestWritten, Update!WorkerStart, Update!files
  <2>2. ASSUME Update!Refused \/ Update!StepFails \/ Update!WorkerDies \/ UNCHANGED Update!vars
        PROVE  FALSE
    BY <2>2 DEF Update!Refused, Update!StepFails, Update!WorkerDies, Update!Throw, Update!vars, Update!files
  <2>3. ASSUME Update!execute
        PROVE  FALSE
    BY <1>1, <2>3 DEF Update!execute
  <2>4. ASSUME Update!Unlink \/ Update!Prepared \/ Update!pauseManagedServer \/ Update!Stopped \/ Update!BackUp
               \/ Update!resumeManagedServer
               \/ Update!Started \/ Update!Verified \/ Update!BeginRollback \/ Update!restoreData
                  \/ Update!Stage \/ Update!SetAside \/ Update!PutBack
               \/ Update!Restored \/ Update!GiveUp \/ Update!Fail
        PROVE  FALSE
    BY <1>2, <2>4 DEF Update!Unlink, Update!Prepared, Update!pauseManagedServer, Update!Stopped, Update!BackUp,
       Update!resumeManagedServer,
      Update!Started, Update!Verified, Update!BeginRollback, Update!restoreData, Update!Stage, Update!SetAside,
      Update!PutBack, Update!Restored, Update!GiveUp, Update!Fail
  <2> QED BY <2>1, <2>2, <2>3, <2>4 DEF Update!Next, Update!WorkerStep
<1>4. Requested /\ state' = request /\ state.id # request.id
  BY <1>3 DEF Update!claimRequest, Requested
<1>5. state.id < request.id
  BY <1>1, <1>4 DEF UpdateNumbered
<1>6. request.id \in Nat /\ state.id \in Nat
  BY <1>1, <1>4, UpdateTyped DEF UpdateTypeOK, Requested, Update!Requests
<1> QED BY <1>4, <1>5, <1>6

\* A request is executed once, although its file outlives a worker that dies.
THEOREM UpdateEndsOnce == Update!UpdateAssumption => (Update!Spec => Update!OutcomeIsFinal)
<1> SUFFICES ASSUME Update!UpdateAssumption
             PROVE  Update!Spec => Update!OutcomeIsFinal
  OBVIOUS
<1>1. Update!Init => UpdateInv
  BY UpdateInitInv
<1>2. UpdateInv /\ [Update!Next]_Update!vars => UpdateInv'
  BY UpdateInvStep
<1>3. UpdateInv /\ [Update!Next]_Update!vars =>
        [state # None /\ state.phase \in Update!FINISHED_PHASES /\ state' # state => state'.id > state.id]_Update!vars
  BY FinalStep
<1> QED BY <1>1, <1>2, <1>3, PTL DEF Update!Spec, Update!OutcomeIsFinal

-----------------------------------------------------------------------------
(***************************************************************************)
(* The switch to another installation (DesktopTransition).                 *)
(***************************************************************************)
(* The inductive invariant. *)

SwitchPhases == {"queued", "preparing"} \cup Switch!SWITCH_PHASES \cup Switch!FINISHED_PHASES

SwitchTypeOK ==
  /\ transition \in Switch!Journals \cup {None} /\ plan \in Switch!Plans \cup {None}
  /\ reservation \in Switch!Updates \cup {None, Partial} /\ switch \in Switch!Updates \cup {None}
  /\ transitions \in Nat /\ ordinaries \in Nat /\ (launcher = "publish" => plan # None)
  /\ deployment \in Nat /\ owner \in [of : Nat, version : Nat, paused : BOOLEAN]
  /\ updater \in [of : Nat, on : BOOLEAN]

\* Where the worker is: at a transition that is prepared, stops the updater, or is left, and
\* in the engine.
Checking == {"check", "reserve", "write", "save switching"}
Leaving == {"release reservation", "restore updater", "save failed"}
Stopping == {"stop updater", "stage", "start"}
Executing == {"execute", "recovery required"} \cup Switch!Forward \cup Switch!Backward \cup Switch!Ending

SwitchPlaces == {"idle", "retire"} \cup Checking \cup Leaving \cup Stopping \cup Executing

\* The switch is under way, and the engine's state is of it.
Begun == transition # None /\ transition.phase \in {"switching", "recovery-required"}
Mine == switch # None /\ switch.id = <<"transition", transition.id>>

\* Transitions are numbered.
SwitchNumbered ==
  /\ transition # None => transition.id <= transitions /\ (launcher = "publish" => transition.id < transitions)
  /\ \A file \in {switch, reservation} \ {None, Partial} :
       file.id[1] = "transition" => transition # None /\ file.id[2] <= transition.id
  /\ transition # None /\ transition.phase = "queued" /\ Mine => switch.phase = "failed"
  /\ reservation \notin {None, Partial} =>
       reservation.phase \in {"queued", "preparing"}
       /\ (reservation.id[1] = "transition" => reservation.phase = "preparing")
  /\ launcher = "publish" => ~Switch!desktopTransitionPending

\* Where the worker is, the journal and the engine's state say.
SwitchPhased ==
  /\ mover \in SwitchPlaces
  /\ mover \notin {"idle", "retire"} => Switch!desktopTransitionPending
  /\ mover \in Checking => transition.phase = "queued"
  /\ mover \in Stopping => transition.phase = "switching"
  /\ mover \in Executing => Begun /\ Mine
  /\ mover = "start" => Mine /\ switch.phase = "queued"
  /\ mover \in Checking \cup Stopping \cup Leaving /\ Mine => switch.phase \in {"queued", "failed"}
  /\ mover = "prepare" => switch.phase = "preparing"
  /\ mover = "fail" => switch.phase \in {"queued", "preparing"}
  /\ mover \in {"pause", "back up"} => switch.phase = "pausing"
  /\ mover \in {"new deployment", "new unload", "new service", "new updater", "new resume", "started"} =>
       switch.phase = "starting"
  /\ mover \in {"verify", "verified"} => switch.phase = "verifying"
  /\ mover \in {"rollback", "give up"} => switch.phase \in Switch!SWITCH_PHASES
  /\ mover \in Switch!Backward \ {"rollback"} => switch.phase = "rolling-back"
  /\ mover \in {"end", "save end"} => switch.phase \in Switch!FINISHED_PHASES

\* The ordinary updater is out of the way of a switch.
Alone ==
  /\ mover \notin {"idle", "retire"} => ordinary # "leased"
  /\ switch # None /\ switch.phase \in Switch!SWITCH_PHASES => Begun /\ Mine
  /\ Begun /\ Mine /\ switch.phase # "failed" => ordinary = "idle"
  /\ mover = "stage" => ordinary = "idle"

\* Everything is of an installation, and its updater runs.
BelongsTo(i) ==
  /\ service = i /\ deployment = i /\ marker = i /\ updater.of = i
  /\ owner.of = i /\ ~owner.paused
Whole(i) == BelongsTo(i) /\ updater = [of |-> i, on |-> TRUE]

\* What is switched, by where the worker is and what has ended.
Switched ==
  /\ ~Begun => Whole(deployment)
  /\ mover \in Checking \ {"check"} => Whole(transition.old.deployment)
  /\ Begun /\ (~Mine \/ switch.phase \in {"queued", "preparing", "failed"}) =>
       BelongsTo(transition.old.deployment)
  /\ Begun /\ Mine /\ switch.phase = "succeeded" => Whole(transition.id)
  /\ Begun /\ Mine /\ switch.phase = "rolled-back" => Whole(transition.old.deployment)
  /\ mover = "save failed" \/ (mover = "save end" /\ switch.phase = "failed") => Whole(deployment)
  /\ mover \in {"new unload", "new service", "new updater", "new resume", "started", "verify", "verified"} =>
       deployment = transition.id
  /\ mover \in {"new updater", "new resume", "started", "verify", "verified"} => service = transition.id
  /\ mover \in {"new resume", "started", "verify", "verified"} => updater = [of |-> transition.id, on |-> TRUE]
  /\ mover \in {"started", "verify", "verified"} => owner.of = transition.id /\ ~owner.paused
  /\ mover = "verified" => marker = transition.id
  /\ mover \in {"old unload", "old service", "old updater", "old metadata", "old resume", "old verify"} =>
       deployment = transition.old.deployment
  /\ mover \in {"old updater", "old metadata", "old resume", "old verify"}
     => service = transition.old.deployment
  /\ mover \in {"old metadata", "old resume", "old verify"} =>
       updater = [of |-> transition.old.deployment, on |-> TRUE]
  /\ mover \in {"old resume", "old verify"} => marker = transition.old.deployment
  /\ mover = "old verify" => owner.of = transition.old.deployment /\ ~owner.paused

SwitchInv == SwitchTypeOK /\ SwitchNumbered /\ SwitchPhased /\ Alone /\ Switched

-----------------------------------------------------------------------------
(* The records.                                                            *)

LEMMA SwitchNothing ==
  ASSUME Switch!TransitionAssumption
  PROVE  /\ None # Partial
         /\ None \notin Nat /\ None \notin Switch!Plans /\ None \notin Switch!Journals
            /\ None \notin Switch!Updates
         /\ Partial \notin Nat /\ Partial \notin Switch!Plans /\ Partial \notin Switch!Journals
            /\ Partial \notin Switch!Updates
BY DEF Switch!TransitionAssumption

\* A file with another phase, and a journal with another phase.
LEMMA OtherPhase ==
  ASSUME Switch!TransitionAssumption, NEW s \in Switch!Updates, NEW ph \in SwitchPhases, NEW t,
         t = [s EXCEPT !.phase = ph]
  PROVE  t \in Switch!Updates /\ t # None /\ t.phase = ph /\ t.id = s.id
BY SwitchNothing DEF Switch!Updates, SwitchPhases

LEMMA SwitchTyped ==
  ASSUME SwitchTypeOK
  PROVE  /\ transition # None
            => /\ transition \in Switch!Journals /\ transition.id \in Nat /\ transition.old \in Switch!Plans
         /\ switch # None => /\ switch \in Switch!Updates /\ switch.phase \in SwitchPhases
                            /\ switch.id \in {"update", "transition"} \X Nat
         /\ reservation \notin {None, Partial} => reservation \in Switch!Updates
            /\ reservation.id \in {"update", "transition"} \X Nat
         /\ transitions \in Nat
BY DEF SwitchTypeOK, Switch!Journals, Switch!Updates, SwitchPhases

\* What is switched is not the file of a request, the launcher's or the command's.
LEMMA Same ==
  ASSUME SwitchInv, UNCHANGED <<transition, switch, deployment, owner, marker, service, updater, mover>>
  PROVE  SwitchPhased' /\ Switched'
<1>1. SwitchPhased /\ Switched
  BY DEF SwitchInv
<1>2. SwitchPhased'
  BY <1>1 DEF SwitchPhased, Begun, Mine, Switch!desktopTransitionPending
<1>3. Switched'
  BY <1>1 DEF Switched, Begun, Mine, Whole, BelongsTo
<1> QED BY <1>2, <1>3

-----------------------------------------------------------------------------
(* The launcher, the command, the start of the updater.                    *)

LEMMA LauncherInv ==
  ASSUME Switch!TransitionAssumption, SwitchInv, Switch!requestDesktopTransition \/ Switch!LauncherDies
  PROVE  SwitchInv'
<1>1. /\ SwitchTypeOK /\ SwitchNumbered /\ Alone
      /\ UNCHANGED <<transition, reservation, switch, deployment, owner, marker, service, updater, mover,
                     ordinary, ordinaries>>
  BY DEF SwitchInv, Switch!requestDesktopTransition, Switch!LauncherDies, Switch!files, Switch!native,
     Switch!history
<1>2. \/ launcher' # "publish" /\ transitions' = transitions /\ plan' \in {plan, None}
      \/ /\ ~Switch!desktopTransitionPending /\ transitions' = transitions + 1 /\ launcher' = "publish"
         /\ plan' = [deployment |-> deployment, runtime |-> owner.version]
  BY DEF Switch!requestDesktopTransition, Switch!LauncherDies, Switch!history
<1>3. SwitchNumbered'
  BY <1>1, <1>2, SwitchTyped DEF SwitchNumbered, Switch!desktopTransitionPending, Mine
<1>4. Alone'
  BY <1>1 DEF Alone, Begun, Mine
<1>5. SwitchTypeOK'
  <2>1. plan' \in Switch!Plans \cup {None} /\ transitions' \in Nat
    BY <1>1, <1>2, SMT DEF SwitchTypeOK, Switch!Plans
  <2>2. launcher' = "publish" => plan' # None
    BY <1>1, <1>2, SwitchNothing, SMT DEF SwitchTypeOK, Switch!Plans
  <2> QED BY <1>1, <2>1, <2>2 DEF SwitchTypeOK
<1> QED BY <1>1, <1>3, <1>4, <1>5, Same DEF SwitchInv


LEMMA PublishInv ==
  ASSUME Switch!TransitionAssumption, SwitchInv, Switch!Publish
  PROVE  SwitchInv'
<1>1. /\ SwitchTypeOK /\ SwitchNumbered /\ SwitchPhased /\ Alone /\ Switched /\ plan \in Switch!Plans
      /\ launcher = "publish" /\ launcher' = "register" /\ ~Switch!desktopTransitionPending
      /\ transition' = [id |-> transitions, phase |-> "queued", old |-> plan] /\ plan' = None
      /\ UNCHANGED <<reservation, switch, deployment, owner, marker, service, updater, mover, ordinary,
                     transitions, ordinaries>>
  BY DEF SwitchInv, SwitchTypeOK, SwitchNumbered, Switch!Publish, Switch!files, Switch!native, Switch!history
<1>2. /\ transition' \in Switch!Journals /\ transition' # None /\ transition'.id = transitions
         /\ transition'.phase = "queued"
      /\ transition'.old = plan
  <2>1. transition' \in Switch!Journals
    BY <1>1 DEF SwitchTypeOK, Switch!Journals
  <2> QED BY <1>1, <2>1, SwitchNothing
<1>3. mover \in {"idle", "retire"} /\ ~Begun /\ ~Begun'
  BY <1>1, <1>2 DEF SwitchPhased, Begun, Switch!desktopTransitionPending, Switch!TERMINAL
<1>4. ~Mine'
  <2>1. SUFFICES ASSUME switch # None, switch.id = <<"transition", transitions>> PROVE FALSE
    BY <1>1, <1>2 DEF Mine
  <2>2. switch.id[1] = "transition" /\ switch.id[2] = transitions /\ switch # Partial
    BY <1>1, <2>1, SwitchNothing DEF SwitchTypeOK
  <2>3. transition # None /\ transitions <= transition.id /\ transition.id < transitions
    BY <1>1, <2>1, <2>2 DEF SwitchNumbered
  <2> QED BY <1>1, <2>3, SwitchTyped
<1>5. SwitchTypeOK'
  BY <1>1, <1>2 DEF SwitchTypeOK
<1>6. SwitchNumbered'
  <2>1. \A file \in {switch, reservation} \ {None, Partial} :
          file.id[1] = "transition" => transition' # None /\ file.id[2] <= transition'.id
    <3>1. SUFFICES ASSUME NEW file \in {switch, reservation} \ {None, Partial}, file.id[1] = "transition"
                   PROVE  file.id[2] <= transitions
      BY <1>2
    <3>2. transition # None /\ file.id[2] <= transition.id /\ transition.id < transitions
      BY <1>1, <3>1 DEF SwitchNumbered
    <3>3. file.id[2] \in Nat
      BY <1>1, <3>1, SwitchTyped
    <3> QED BY <1>1, <3>2, <3>3, SwitchTyped
  <2> QED BY <1>1, <1>2, <1>4, <2>1 DEF SwitchNumbered, SwitchTypeOK
<1>7. SwitchPhased'
  BY <1>1, <1>3 DEF SwitchPhased, Checking, Stopping, Leaving, Executing, Switch!Forward, Switch!Backward,
     Switch!Ending
<1>8. Alone'
  BY <1>1, <1>3 DEF Alone
<1>9. Switched'
  BY <1>1, <1>3 DEF Switched, Checking, Whole, BelongsTo
<1> QED BY <1>5, <1>6, <1>7, <1>8, <1>9 DEF SwitchInv

LEMMA RegisterInv ==
  ASSUME Switch!TransitionAssumption, SwitchInv, Switch!Register
  PROVE  SwitchInv'
<1>1. /\ SwitchTypeOK /\ SwitchNumbered /\ SwitchPhased /\ Alone /\ Switched
      /\ launcher' = "idle" /\ mover' \in {mover, "idle"}
      /\ UNCHANGED <<transition, plan, reservation, switch, deployment, owner, marker, service, updater,
                     ordinary, transitions, ordinaries>>
  BY DEF SwitchInv, Switch!Register, Switch!files
<1>2. SwitchTypeOK' /\ SwitchNumbered'
  BY <1>1 DEF SwitchTypeOK, SwitchNumbered, Mine, Switch!desktopTransitionPending
<1>3. SwitchPhased'
  BY <1>1 DEF SwitchPhased, Begun, Mine, Switch!desktopTransitionPending, SwitchPlaces, Checking, Stopping,
     Leaving, Executing, Switch!Forward,
              Switch!Backward, Switch!Ending
<1>4. Alone'
  BY <1>1 DEF Alone, Begun, Mine
<1>5. Switched'
  BY <1>1 DEF Switched, Begun, Mine, Whole, BelongsTo, Checking
<1> QED BY <1>2, <1>3, <1>4, <1>5 DEF SwitchInv

\* A worker that dies, or whose run ends, leaves everything else as it is.
LEMMA WorkerStops ==
  ASSUME Switch!TransitionAssumption, SwitchInv, mover' = "idle",
         UNCHANGED <<transition, Switch!files, service, updater, Switch!others, transitions, ordinaries>>
  PROVE  SwitchInv'
<1>1. /\ SwitchTypeOK /\ SwitchNumbered /\ SwitchPhased /\ Alone /\ Switched
      /\ UNCHANGED <<transition, plan, reservation, switch, deployment, owner, marker, service, updater,
                     ordinary, launcher, transitions, ordinaries>>
  BY DEF SwitchInv, Switch!files, Switch!others
<1>2. SwitchTypeOK' /\ SwitchNumbered'
  BY <1>1 DEF SwitchTypeOK, SwitchNumbered, Mine, Switch!desktopTransitionPending
<1>3. SwitchPhased'
  BY <1>1 DEF SwitchPhased, Begun, Mine, Switch!desktopTransitionPending, SwitchPlaces, Checking, Stopping,
     Leaving, Executing, Switch!Forward,
              Switch!Backward, Switch!Ending
<1>4. Alone'
  BY <1>1 DEF Alone, Begun, Mine
<1>5. Switched'
  BY <1>1 DEF Switched, Begun, Mine, Whole, BelongsTo, Checking
<1> QED BY <1>2, <1>3, <1>4, <1>5 DEF SwitchInv

LEMMA CommandInv ==
  ASSUME Switch!TransitionAssumption, SwitchInv, Switch!enqueueUpdate \/ Switch!CommandStep
         \/ Switch!CommandDies
  PROVE  SwitchInv'
<1>1. /\ SwitchTypeOK /\ SwitchNumbered /\ Alone
      /\ UNCHANGED <<transition, plan, switch, deployment, owner, marker, service, updater, mover,
                     ordinary, launcher, transitions>>
  BY DEF SwitchInv, Switch!enqueueUpdate, Switch!CommandStep, Switch!OpenRequest, Switch!WriteRequest,
     Switch!CommandDies, Switch!files, Switch!native, Switch!history
<1>2. /\ reservation' \in {reservation, Partial, None, [id |-> <<"update", ordinaries>>, phase |-> "queued"]}
      /\ ordinaries' \in Nat
  <2>1. ordinaries + 1 \in Nat
    BY <1>1 DEF SwitchTypeOK
  <2> QED BY <1>1, <2>1 DEF SwitchTypeOK, Switch!enqueueUpdate, Switch!CommandStep, Switch!OpenRequest,
             Switch!WriteRequest, Switch!CommandDies, Switch!files, Switch!history
<1>3. reservation' = reservation \/ reservation' \in {Partial, None}
      \/ (reservation' \in Switch!Updates /\ reservation'.id[1] = "update" /\ reservation'.phase = "queued")
  BY <1>1, <1>2 DEF SwitchTypeOK, Switch!Updates
<1>4. SwitchTypeOK'
  BY <1>1, <1>2, <1>3 DEF SwitchTypeOK
<1>5. SwitchNumbered'
  BY <1>1, <1>3 DEF SwitchNumbered, Mine, Switch!desktopTransitionPending
<1>6. Alone'
  BY <1>1 DEF Alone, Begun, Mine
<1> QED BY <1>1, <1>4, <1>5, <1>6, Same DEF SwitchInv

LEMMA SwitchStartInv ==
  ASSUME Switch!TransitionAssumption, SwitchInv, Switch!UpdaterStarts \/ Switch!TakeLease
  PROVE  SwitchInv'
<1>1. /\ SwitchTypeOK /\ SwitchNumbered /\ SwitchPhased /\ Alone
      /\ UNCHANGED <<transition, plan, reservation, switch, deployment, owner, marker, service, updater, mover,
                     launcher, transitions, ordinaries>>
  BY DEF SwitchInv, Switch!UpdaterStarts, Switch!TakeLease, Switch!files, Switch!native, Switch!history
<1>2. SwitchTypeOK' /\ SwitchNumbered'
  BY <1>1 DEF SwitchTypeOK, SwitchNumbered, Mine, Switch!desktopTransitionPending
<1>3. Alone'
  <2>1. \/ ordinary = "checked"
           /\ (ordinary' = "idle" \/ (mover \in {"idle", "retire"} /\ ordinary' = "leased"))
        \/ ordinary' = "checked" /\ ~Switch!desktopTransitionPending
    BY DEF Switch!UpdaterStarts, Switch!TakeLease, Switch!MayRun, Switch!leaseAlive
  <2> QED BY <1>1, <2>1 DEF Alone, SwitchPhased, Begun, Mine, Switch!desktopTransitionPending, Switch!TERMINAL
<1> QED BY <1>1, <1>2, <1>3, Same DEF SwitchInv


-----------------------------------------------------------------------------
(* The ordinary updater's run.                                             *)

LEMMA RunInv ==
  ASSUME Switch!TransitionAssumption, SwitchInv, Switch!UpdaterRuns
  PROVE  SwitchInv'
<1>1. /\ SwitchTypeOK /\ SwitchNumbered /\ SwitchPhased /\ Alone /\ Switched
      /\ ordinary = "leased" /\ ordinary' = "idle"
      /\ UNCHANGED <<transition, plan, deployment, marker, service, updater, mover, launcher,
                     transitions, ordinaries>>
  BY DEF SwitchInv, Switch!UpdaterRuns, Switch!native, Switch!history
<1>2. /\ mover \in {"idle", "retire"}
      /\ switch # None /\ switch.phase \in Switch!SWITCH_PHASES => FALSE
      /\ Begun /\ Mine => switch.phase = "failed"
  BY <1>1 DEF Alone, Switch!SWITCH_PHASES
<1>3. PICK current \in {switch, reservation} :
        /\ Switch!Execute(current) /\ reservation' \in {reservation, None}
        /\ current # switch => current \notin {None, Partial} /\ current.phase \in {"queued", "preparing"}
                              /\ (current.id[1] = "transition" => current.phase = "preparing")
  BY <1>1 DEF Switch!UpdaterRuns, SwitchNumbered
<1>4. current # Partial
      /\ (current # None => current \in Switch!Updates /\ current.phase \notin Switch!SWITCH_PHASES)
  BY <1>1, <1>2, <1>3, SwitchNothing DEF SwitchTypeOK, Switch!SWITCH_PHASES
<1>5. /\ owner'.of = owner.of /\ owner'.paused = owner.paused
      /\ owner' \in [of : Nat, version : Nat, paused : BOOLEAN]
  <2>1. PICK i \in Nat, n \in Nat, p \in BOOLEAN : owner = [of |-> i, version |-> n, paused |-> p]
    BY <1>1 DEF SwitchTypeOK
  <2>2. owner' \in {owner, [owner EXCEPT !.version = @ + 1]}
    BY <1>3, <1>4 DEF Switch!Execute
  <2> QED BY <2>1, <2>2
<1>6. \/ switch' = current /\ (current # None => current.phase \in Switch!FINISHED_PHASES)
      \/ /\ current # None /\ current.phase \in {"queued", "preparing"}
         /\ switch' \in Switch!Updates /\ switch' # None /\ switch'.id = current.id
         /\ switch'.phase = "failed" \/ (switch'.phase = "succeeded" /\ current.phase = "queued")
  <2>1. "failed" \in SwitchPhases /\ "succeeded" \in SwitchPhases
    BY DEF SwitchPhases, Switch!FINISHED_PHASES
  <2>2. CASE current = None \/ current.phase \in Switch!FINISHED_PHASES
    BY <1>3, <1>4, <2>2 DEF Switch!Execute, Switch!FINISHED_PHASES, Switch!SWITCH_PHASES
  <2>3. CASE current # None /\ current.phase \notin Switch!FINISHED_PHASES
    <3>1. \/ current.phase = "queued"
             /\ switch' \in {[current EXCEPT !.phase = "succeeded"], [current EXCEPT !.phase = "failed"]}
          \/ current.phase = "preparing" /\ switch' = [current EXCEPT !.phase = "failed"]
      BY <1>3, <1>4, <2>3 DEF Switch!Execute
    <3> QED BY <1>4, <2>1, <2>3, <3>1, OtherPhase
  <2> QED BY <2>2, <2>3
<1>7. SwitchTypeOK'
  <2>1. switch' \in Switch!Updates \cup {None} /\ reservation' \in Switch!Updates \cup {None, Partial}
    BY <1>1, <1>3, <1>4, <1>6 DEF SwitchTypeOK
  <2> QED BY <1>1, <1>5, <2>1 DEF SwitchTypeOK
<1>8. /\ switch' # None => switch'.phase \in Switch!FINISHED_PHASES
      /\ transition # None /\ transition.phase = "queued" /\ Mine' => switch'.phase = "failed"
      /\ Begun /\ Mine' => switch'.phase = "failed"
  <2>1. switch' # None => switch'.phase \in Switch!FINISHED_PHASES
    BY <1>6 DEF Switch!FINISHED_PHASES
  <2>2. switch' # None /\ switch'.id = <<"transition", transition.id>> => current # None
        /\ current.id = <<"transition", transition.id>>
    BY <1>6
  <2>3. CASE current = switch
    BY <1>1, <1>2, <1>6, <2>1, <2>2, <2>3 DEF Mine, SwitchNumbered
  <2>4. CASE current # switch
    BY <1>1, <1>3, <1>6, <2>1, <2>2, <2>4 DEF Mine, Switch!FINISHED_PHASES
  <2> QED BY <2>1, <2>3, <2>4
<1>9. SwitchNumbered'
  <2>1. \A file \in {switch', reservation'} \ {None, Partial} :
          file.id[1] = "transition" => transition # None /\ file.id[2] <= transition.id
    <3>1. \A file \in {switch', reservation'} \ {None, Partial} : \E old \in {switch, reservation} \ {None, Partial} : old.id = file.id
      BY <1>3, <1>4, <1>6, SwitchNothing
    <3> QED BY <1>1, <3>1 DEF SwitchNumbered
  <2> QED BY <1>1, <1>3, <1>8, <2>1 DEF SwitchNumbered, Switch!desktopTransitionPending
<1>10. SwitchPhased'
  BY <1>1, <1>2 DEF SwitchPhased, Checking, Stopping, Leaving, Executing, Switch!Forward, Switch!Backward,
     Switch!Ending
<1>11. Alone'
  BY <1>1, <1>2, <1>8 DEF Alone, Switch!FINISHED_PHASES, Switch!SWITCH_PHASES, Begun
<1>12. Switched'
  <2>1. Begun => BelongsTo(transition.old.deployment)
    BY <1>1, <1>2 DEF Switched
  <2>2. (~Begun => Whole(deployment)) /\ Begun' = Begun
    BY <1>1 DEF Switched, Begun
  <2>3. /\ ~Begun' => Whole(deployment)'
        /\ Begun' => BelongsTo(transition.old.deployment)'
    BY <1>1, <1>5, <2>1, <2>2 DEF Whole, BelongsTo
  <2> QED BY <1>1, <1>2, <1>8, <2>2, <2>3 DEF Switched, Checking
<1> QED BY <1>7, <1>9, <1>10, <1>11, <1>12 DEF SwitchInv


-----------------------------------------------------------------------------
(* The worker, from the queue to the switch.                               *)

LEMMA TimerInv ==
  ASSUME Switch!TransitionAssumption, SwitchInv, Switch!TimerFires
  PROVE  SwitchInv'
<1>1. /\ SwitchTypeOK /\ SwitchNumbered /\ SwitchPhased /\ Alone /\ Switched
      /\ mover = "idle" /\ transition # None /\ ordinary # "leased"
      /\ UNCHANGED <<transition, plan, reservation, switch, deployment, owner, marker, service, updater, ordinary,
                     launcher, transitions, ordinaries>>
  BY DEF SwitchInv, Switch!TimerFires, Switch!leaseAlive, Switch!Goto, Switch!files, Switch!native, Switch!others,
     Switch!history
<1>2. transition.phase \in {"queued", "switching", "recovery-required"} \cup Switch!TERMINAL
  BY <1>1 DEF SwitchTypeOK, Switch!Journals
<1>3. \/ mover' = "retire"
      \/ mover' = "check" /\ transition.phase = "queued"
      \/ mover' = "execute" /\ transition.phase \in {"switching", "recovery-required"} /\ Mine
      \/ mover' = "release reservation" /\ transition.phase \in {"switching", "recovery-required"} /\ ~Mine
  <2>1. Switch!Ours(switch) <=> Mine
    BY <1>1, SwitchNothing DEF Switch!Ours, Mine, SwitchTypeOK
  <2> QED BY <1>2, <2>1 DEF Switch!TimerFires, Switch!Goto, Switch!TERMINAL
<1>4. SwitchTypeOK' /\ SwitchNumbered'
  BY <1>1 DEF SwitchTypeOK, SwitchNumbered, Mine, Switch!desktopTransitionPending
<1>5. SwitchPhased'
  BY <1>1, <1>3 DEF SwitchPhased, SwitchNumbered, Begun, Mine, Switch!desktopTransitionPending, Switch!TERMINAL,
     SwitchPlaces, Checking, Stopping, Leaving,
              Executing, Switch!Forward, Switch!Backward, Switch!Ending
<1>6. Alone'
  BY <1>1, <1>3 DEF Alone, Begun, Mine
<1>7. Switched'
  BY <1>1, <1>3 DEF Switched, Begun, Mine, Whole, BelongsTo, Checking
<1> QED BY <1>4, <1>5, <1>6, <1>7 DEF SwitchInv

LEMMA AssertIdleInv ==
  ASSUME Switch!TransitionAssumption, SwitchInv, Switch!assertIdle
  PROVE  SwitchInv'
<1>1. /\ SwitchTypeOK /\ SwitchNumbered /\ SwitchPhased /\ Alone /\ Switched
      /\ mover = "check"
      /\ UNCHANGED <<transition, plan, reservation, switch, deployment, owner, marker, service, updater, ordinary,
                     launcher, transitions, ordinaries>>
  BY DEF SwitchInv, Switch!assertIdle, Switch!Goto, Switch!files, Switch!native, Switch!others, Switch!history
<1>2. mover' = "release reservation" \/ (mover' = "reserve" /\ deployment = transition.old.deployment)
  BY DEF Switch!assertIdle, Switch!Goto, Switch!Unchanged
<1>3. transition # None /\ transition.phase = "queued" /\ ~Begun
  BY <1>1 DEF SwitchPhased, Checking, Switch!desktopTransitionPending, Begun
<1>4. SwitchTypeOK' /\ SwitchNumbered'
  BY <1>1 DEF SwitchTypeOK, SwitchNumbered, Mine, Switch!desktopTransitionPending
<1>5. SwitchPhased'
  BY <1>1, <1>2 DEF SwitchPhased, Begun, Mine, Switch!desktopTransitionPending, SwitchPlaces, Checking, Stopping,
     Leaving,
              Executing, Switch!Forward, Switch!Backward, Switch!Ending
<1>6. Alone'
  BY <1>1, <1>2 DEF Alone, Begun, Mine
<1>7. Switched'
  BY <1>1, <1>2, <1>3 DEF Switched, Begun, Mine, Whole, BelongsTo, Checking
<1> QED BY <1>4, <1>5, <1>6, <1>7 DEF SwitchInv

\* The reservation, and its return.
LEMMA ReservationInv ==
  ASSUME Switch!TransitionAssumption, SwitchInv,
         Switch!Reserve \/ Switch!WriteReservation \/ Switch!releaseReservation
  PROVE  SwitchInv'
<1>1. /\ SwitchTypeOK /\ SwitchNumbered /\ SwitchPhased /\ Alone /\ Switched
      /\ UNCHANGED <<transition, plan, switch, deployment, owner, marker, service, updater, ordinary,
                     launcher, transitions, ordinaries>>
  BY DEF SwitchInv, Switch!Reserve, Switch!WriteReservation, Switch!releaseReservation, Switch!native,
     Switch!others, Switch!history
<1>2. \/ mover = "reserve" /\ mover' \in {"write", "release reservation"}
         /\ reservation' \in {reservation, Partial}
      \/ mover = "write" /\ mover' = "save switching" /\ reservation' = Switch!Reservation
      \/ mover = "start" /\ mover' = "execute" /\ reservation' \in {reservation, None}
      \/ mover = "release reservation" /\ mover' \in {"idle", "restore updater"}
         /\ reservation' \in {reservation, None}
  BY DEF Switch!Reserve, Switch!WriteReservation, Switch!releaseReservation
<1>3. mover # "idle" /\ mover # "retire" /\ transition # None /\ transition.id \in Nat
  BY <1>1, <1>2, SwitchTyped DEF SwitchPhased, Switch!desktopTransitionPending
<1>4. Switch!Reservation \in Switch!Updates /\ Switch!Reservation.phase = "preparing"
      /\ Switch!Reservation.id = <<"transition", transition.id>>
  BY <1>3 DEF Switch!Reservation, Switch!Updates
<1>5. SwitchTypeOK'
  BY <1>1, <1>2, <1>4 DEF SwitchTypeOK
<1>6. SwitchNumbered'
  <2>1. \A file \in {switch, reservation'} \ {None, Partial} :
          file.id[1] = "transition" => transition # None /\ file.id[2] <= transition.id
    <3>1. \A file \in {switch, reservation} \ {None, Partial} :
            file.id[1] = "transition" => transition # None /\ file.id[2] <= transition.id
      BY <1>1 DEF SwitchNumbered
    <3>2. reservation' \in {reservation, None, Partial}
          \/ (reservation'.id[1] = "transition" /\ reservation'.id[2] = transition.id)
      <4>1. reservation' \in {reservation, None, Partial} \/ reservation'.id = <<"transition", transition.id>>
        BY <1>2, <1>4
      <4> QED BY <4>1
    <3> QED BY <1>3, <3>1, <3>2
  <2>2. reservation' \notin {None, Partial} =>
       reservation'.phase \in {"queued", "preparing"}
       /\ (reservation'.id[1] = "transition" => reservation'.phase = "preparing")
    BY <1>1, <1>2, <1>4 DEF SwitchNumbered
  <2> QED BY <1>1, <2>1, <2>2 DEF SwitchNumbered, Mine, Switch!desktopTransitionPending
<1>7. SwitchPhased'
  BY <1>1, <1>2 DEF SwitchPhased, Begun, Mine, Switch!desktopTransitionPending, SwitchPlaces, Checking, Stopping,
     Leaving,
              Executing, Switch!Forward, Switch!Backward, Switch!Ending
<1>8. Alone'
  BY <1>1, <1>2, <1>3 DEF Alone, Begun, Mine
<1>9. Switched'
  BY <1>1, <1>2 DEF Switched, Begun, Mine, Whole, BelongsTo, Checking
<1> QED BY <1>5, <1>6, <1>7, <1>8, <1>9 DEF SwitchInv


\* Saving the journal: with another phase it is another journal of the same transition.
LEMMA Saved ==
  ASSUME Switch!TransitionAssumption, SwitchTypeOK, transition # None,
         NEW ph \in {"queued", "switching", "recovery-required"} \cup Switch!TERMINAL, NEW next, Switch!save(ph, next)
  PROVE  /\ transition' \in Switch!Journals /\ transition' # None /\ transition'.phase = ph
         /\ transition'.id = transition.id /\ transition'.old = transition.old
         /\ mover' = next
         /\ UNCHANGED <<plan, reservation, switch, deployment, owner, marker, service, updater, ordinary,
                        launcher, transitions, ordinaries>>
<1>1. PICK i \in Nat, p \in {"queued", "switching", "recovery-required"} \cup Switch!TERMINAL, o \in Switch!Plans :
        transition = [id |-> i, phase |-> p, old |-> o]
  BY DEF SwitchTypeOK, Switch!Journals
<1>2. transition' = [id |-> i, phase |-> ph, old |-> o]
  BY <1>1 DEF Switch!save
<1>3. transition' \in Switch!Journals
  BY <1>2 DEF Switch!Journals
<1> QED BY <1>1, <1>2, <1>3, SwitchNothing DEF Switch!save, Switch!files, Switch!native, Switch!others,
           Switch!history

LEMMA SaveSwitchingInv ==
  ASSUME Switch!TransitionAssumption, SwitchInv, Switch!SaveSwitching
  PROVE  SwitchInv'
<1>1. SwitchTypeOK /\ SwitchNumbered /\ SwitchPhased /\ Alone /\ Switched /\ mover = "save switching"
  BY DEF SwitchInv, Switch!SaveSwitching
<1>2. transition # None /\ transition.phase = "queued" /\ (Mine => switch.phase = "failed") /\ ~Begun
      /\ launcher # "publish" /\ ordinary # "leased"
  BY <1>1 DEF SwitchPhased, SwitchNumbered, Alone, Checking, Switch!desktopTransitionPending, Begun
<1>3. /\ transition' \in Switch!Journals /\ transition' # None /\ transition'.phase = "switching"
      /\ transition'.id = transition.id /\ transition'.old = transition.old
      /\ mover' = "stop updater"
      /\ UNCHANGED <<plan, reservation, switch, deployment, owner, marker, service, updater, ordinary,
                     launcher, transitions, ordinaries>>
  BY <1>1, <1>2, Saved DEF Switch!SaveSwitching
<1>4. Begun' /\ (Mine' <=> Mine)
  BY <1>3 DEF Begun, Mine
<1>5. SwitchTypeOK' /\ SwitchNumbered'
  BY <1>1, <1>2, <1>3, <1>4 DEF SwitchTypeOK, SwitchNumbered
<1>6. SwitchPhased'
  BY <1>2, <1>3, <1>4 DEF SwitchPhased, Switch!desktopTransitionPending, Switch!TERMINAL, SwitchPlaces, Checking,
     Stopping, Leaving,
              Executing, Switch!Forward, Switch!Backward, Switch!Ending
<1>7. Alone'
  BY <1>1, <1>2, <1>3, <1>4 DEF Alone
<1>8. Switched'
  <2>1. Whole(transition.old.deployment)
    BY <1>1 DEF Switched, Checking
  <2>2. BelongsTo(transition.old.deployment)'
    BY <1>3, <2>1 DEF Whole, BelongsTo
  <2> QED BY <1>2, <1>3, <1>4, <2>2 DEF Switched, Checking
<1> QED BY <1>5, <1>6, <1>7, <1>8 DEF SwitchInv

LEMMA StopUpdaterInv ==
  ASSUME Switch!TransitionAssumption, SwitchInv, Switch!stopUpdater
  PROVE  SwitchInv'
<1>1. /\ SwitchTypeOK /\ SwitchNumbered /\ SwitchPhased /\ Alone /\ Switched
      /\ mover = "stop updater" /\ mover' = "stage" /\ ordinary' = "idle"
      /\ UNCHANGED <<transition, plan, reservation, switch, deployment, owner, marker, service,
                     launcher, transitions, ordinaries>>
  BY DEF SwitchInv, Switch!stopUpdater, Switch!files, Switch!history
<1>2. updater' \in [of : Nat, on : BOOLEAN] /\ updater'.of = updater.of
  <2>1. PICK i \in Nat, o \in BOOLEAN : updater = [of |-> i, on |-> o]
    BY <1>1 DEF SwitchTypeOK
  <2>2. updater' = [of |-> i, on |-> FALSE]
    BY <2>1 DEF Switch!stopUpdater
  <2> QED BY <2>1, <2>2
<1>3. Begun /\ (Mine => switch.phase \in {"queued", "failed"})
  BY <1>1 DEF SwitchPhased, Stopping, Begun, Switch!desktopTransitionPending
<1>4. SwitchTypeOK' /\ SwitchNumbered'
  BY <1>1, <1>2 DEF SwitchTypeOK, SwitchNumbered, Mine, Switch!desktopTransitionPending
<1>5. SwitchPhased'
  BY <1>1 DEF SwitchPhased, Begun, Mine, Switch!desktopTransitionPending, SwitchPlaces, Checking, Stopping, Leaving,
              Executing, Switch!Forward, Switch!Backward, Switch!Ending
<1>6. Alone'
  BY <1>1 DEF Alone, Begun, Mine
<1>7. Switched'
  <2>1. BelongsTo(transition.old.deployment)
    BY <1>1, <1>3 DEF Switched
  <2>2. BelongsTo(transition.old.deployment)' /\ Begun' /\ (Mine' => switch'.phase \in {"queued", "failed"})
    BY <1>1, <1>2, <1>3, <2>1 DEF BelongsTo, Begun, Mine
  <2> QED BY <1>1, <2>2 DEF Switched, Checking
<1> QED BY <1>4, <1>5, <1>6, <1>7 DEF SwitchInv

LEMMA StageInv ==
  ASSUME Switch!TransitionAssumption, SwitchInv, Switch!Stage
  PROVE  SwitchInv'
<1>1. /\ SwitchTypeOK /\ SwitchNumbered /\ SwitchPhased /\ Alone /\ Switched
      /\ mover = "stage"
      /\ UNCHANGED <<transition, plan, reservation, deployment, owner, marker, service, updater, ordinary,
                     launcher, transitions, ordinaries>>
  BY DEF SwitchInv, Switch!Stage, Switch!native, Switch!others, Switch!history
<1>2. Begun /\ (Mine => switch.phase \in {"queued", "failed"}) /\ transition.id \in Nat /\ ordinary = "idle"
      /\ transition.phase = "switching"
  BY <1>1, SwitchTyped DEF SwitchPhased, Stopping, Begun, Switch!desktopTransitionPending, Alone
<1>3. \/ mover' = "release reservation" /\ switch' = switch
      \/ /\ mover' = "start" /\ switch' \in Switch!Updates /\ switch' # None
         /\ switch'.id = <<"transition", transition.id>> /\ switch'.phase = "queued"
  <2>1. [id |-> <<"transition", transition.id>>, phase |-> "queued"] \in Switch!Updates
    BY <1>2 DEF Switch!Updates
  <2>2. \/ mover' = "release reservation" /\ switch' = switch
        \/ mover' = "start" /\ switch' = [id |-> <<"transition", transition.id>>, phase |-> "queued"]
    BY DEF Switch!Stage
  <2>3. CASE switch' = [id |-> <<"transition", transition.id>>, phase |-> "queued"]
    <3>1. switch' \in Switch!Updates /\ switch'.id = <<"transition", transition.id>> /\ switch'.phase = "queued"
      BY <2>1, <2>3
    <3> QED BY <2>2, <3>1, SwitchNothing
  <2> QED BY <2>2, <2>3
<1>4. Begun' /\ (Mine' => switch'.phase \in {"queued", "failed"})
  BY <1>1, <1>2, <1>3 DEF Begun, Mine
<1>5. SwitchTypeOK' /\ SwitchNumbered'
  <2>1. \A file \in {switch', reservation} \ {None, Partial} :
          file.id[1] = "transition" => transition # None /\ file.id[2] <= transition.id
    <3>1. \A file \in {switch, reservation} \ {None, Partial} :
            file.id[1] = "transition" => transition # None /\ file.id[2] <= transition.id
      BY <1>1 DEF SwitchNumbered
    <3>2. switch' = switch \/ (switch'.id[1] = "transition" /\ switch'.id[2] = transition.id)
      <4>1. switch' = switch \/ switch'.id = <<"transition", transition.id>>
        BY <1>3
      <4> QED BY <4>1
    <3> QED BY <1>2, <3>1, <3>2 DEF Begun
  <2> QED BY <1>1, <1>2, <1>3, <2>1 DEF SwitchTypeOK, SwitchNumbered, Mine, Switch!desktopTransitionPending
<1>6. SwitchPhased'
  BY <1>1, <1>2, <1>3, <1>4 DEF SwitchPhased, Begun, Mine, Switch!desktopTransitionPending, SwitchPlaces, Checking,
     Stopping, Leaving,
              Executing, Switch!Forward, Switch!Backward, Switch!Ending
<1>7. Alone'
  BY <1>1, <1>2, <1>3 DEF Alone, Begun, Mine, Switch!SWITCH_PHASES
<1>8. Switched'
  <2>1. BelongsTo(transition.old.deployment)'
    BY <1>1, <1>2 DEF Switched, BelongsTo
  <2> QED BY <1>1, <1>3, <1>4, <2>1 DEF Switched, Checking
<1> QED BY <1>5, <1>6, <1>7, <1>8 DEF SwitchInv


\* The updater of the old installation, when the transition is left or has failed.
LEMMA RestoreUpdaterInv ==
  ASSUME Switch!TransitionAssumption, SwitchInv, Switch!restoreUpdater
  PROVE  SwitchInv'
<1>1. /\ SwitchTypeOK /\ SwitchNumbered /\ SwitchPhased /\ Alone /\ Switched
      /\ UNCHANGED <<transition, plan, reservation, switch, deployment, owner, marker, service, ordinary,
                     launcher, transitions, ordinaries>>
  BY DEF SwitchInv, Switch!restoreUpdater, Switch!files, Switch!others, Switch!history
<1>2. \/ mover = "end" /\ mover' = "save end" /\ Begun /\ Mine /\ switch.phase \in Switch!FINISHED_PHASES
      \/ mover = "restore updater" /\ mover' = "save failed" /\ (Mine => switch.phase \in {"queued", "failed"})
  BY <1>1 DEF Switch!restoreUpdater, SwitchPhased, Executing, Switch!Ending, Leaving
<1>3. transition # None /\ transition.old.deployment \in Nat
      /\ transition.phase \in {"queued", "switching", "recovery-required"}
  BY <1>1, <1>2, SwitchTyped DEF SwitchPhased, Switch!desktopTransitionPending, Switch!TERMINAL, Switch!Journals,
     Switch!Plans
<1>4. \/ updater' = updater /\ (mover = "end" => switch.phase # "failed")
         /\ (mover # "end" => transition.phase = "queued")
      \/ /\ updater' = [of |-> transition.old.deployment, on |-> TRUE]
         /\ Begun /\ BelongsTo(transition.old.deployment) /\ (Mine => switch.phase \in {"queued", "failed"})
  <2>1. CASE (mover = "end" /\ switch.phase = "failed") \/ (mover # "end" /\ transition.phase # "queued")
    <3>1. Begun /\ (Mine => switch.phase \in {"queued", "failed"})
      BY <1>2, <1>3, <2>1 DEF Begun
    <3> QED BY <1>1, <2>1, <3>1 DEF Switch!restoreUpdater, Switched
  <2>2. CASE ~((mover = "end" /\ switch.phase = "failed") \/ (mover # "end" /\ transition.phase # "queued"))
    BY <2>2 DEF Switch!restoreUpdater
  <2> QED BY <2>1, <2>2
<1>5. SwitchTypeOK' /\ SwitchNumbered'
  <2>1. updater' \in [of : Nat, on : BOOLEAN]
    <3>1. updater' = updater \/ updater' = [of |-> transition.old.deployment, on |-> TRUE]
      BY <1>4
    <3>2. PICK i \in Nat : i = transition.old.deployment
      BY <1>3
    <3>3. updater \in [of : Nat, on : BOOLEAN] /\ [of |-> i, on |-> TRUE] \in [of : Nat, on : BOOLEAN]
      BY <1>1 DEF SwitchTypeOK
    <3> QED BY <3>1, <3>2, <3>3
  <2> QED BY <1>1, <2>1 DEF SwitchTypeOK, SwitchNumbered, Mine, Switch!desktopTransitionPending
<1>6. SwitchPhased'
  BY <1>1, <1>2 DEF SwitchPhased, Begun, Mine, Switch!desktopTransitionPending, SwitchPlaces, Checking, Stopping,
     Leaving,
              Executing, Switch!Forward, Switch!Backward, Switch!Ending
<1>7. Alone'
  BY <1>1, <1>2 DEF Alone, Begun, Mine
<1>8. Switched'
  <2>1. CASE updater' = updater /\ (mover = "end" => switch.phase # "failed")
             /\ (mover # "end" => transition.phase = "queued")
    <3>1. mover = "restore updater" => Whole(deployment)
      BY <1>1, <2>1 DEF Switched, Begun
    <3> QED BY <1>1, <1>2, <2>1, <3>1 DEF Switched, Begun, Mine, Whole, BelongsTo, Checking
  <2>2. CASE /\ updater' = [of |-> transition.old.deployment, on |-> TRUE]
             /\ Begun /\ BelongsTo(transition.old.deployment) /\ (Mine => switch.phase \in {"queued", "failed"})
    <3>1. Whole(deployment)' /\ BelongsTo(transition.old.deployment)' /\ Begun'
          /\ (Mine' => switch'.phase \in {"queued", "failed"})
      BY <1>1, <2>2 DEF Whole, BelongsTo, Begun, Mine
    <3> QED BY <1>2, <3>1 DEF Switched, Checking
  <2> QED BY <1>4, <2>1, <2>2
<1> QED BY <1>5, <1>6, <1>7, <1>8 DEF SwitchInv

\* The end of a transition is saved: failed before the switch, or as the engine left it.
LEMMA SaveEndInv ==
  ASSUME Switch!TransitionAssumption, SwitchInv, Switch!SaveFailed \/ Switch!SaveEnd
  PROVE  SwitchInv'
<1>1. SwitchTypeOK /\ SwitchNumbered /\ SwitchPhased /\ Alone /\ Switched
      /\ mover \in {"save failed", "save end"}
  BY DEF SwitchInv, Switch!SaveFailed, Switch!SaveEnd
<1>2. /\ transition # None /\ Switch!desktopTransitionPending /\ launcher # "publish" /\ ordinary # "leased"
      /\ mover = "save end" => Begun /\ Mine /\ switch.phase \in Switch!TERMINAL
  BY <1>1 DEF SwitchPhased, SwitchNumbered, Alone, Executing, Switch!Ending, Switch!desktopTransitionPending,
     Switch!TERMINAL, Switch!FINISHED_PHASES
<1>3. PICK ph \in Switch!TERMINAL : Switch!save(ph, "idle")
  BY <1>2 DEF Switch!SaveFailed, Switch!SaveEnd, Switch!TERMINAL
<1>4. /\ transition' \in Switch!Journals /\ transition' # None /\ transition'.phase = ph
      /\ transition'.id = transition.id /\ transition'.old = transition.old
      /\ mover' = "idle"
      /\ UNCHANGED <<plan, reservation, switch, deployment, owner, marker, service, updater, ordinary,
                     launcher, transitions, ordinaries>>
  BY <1>1, <1>2, <1>3, Saved
<1>5. ~Begun' /\ (Mine' <=> Mine) /\ ~Switch!desktopTransitionPending' /\ transition'.phase # "queued"
  BY <1>4 DEF Begun, Mine, Switch!desktopTransitionPending, Switch!TERMINAL
<1>6. switch # None => switch.phase \notin Switch!SWITCH_PHASES
  BY <1>1, <1>2 DEF Alone, SwitchPhased, Leaving, Switch!SWITCH_PHASES, Switch!TERMINAL
<1>7. SwitchTypeOK' /\ SwitchNumbered'
  BY <1>1, <1>2, <1>4, <1>5 DEF SwitchTypeOK, SwitchNumbered
<1>8. SwitchPhased'
  BY <1>4, <1>5 DEF SwitchPhased, SwitchPlaces, Checking, Stopping, Leaving, Executing, Switch!Forward,
     Switch!Backward, Switch!Ending
<1>9. Alone'
  BY <1>4, <1>5, <1>6 DEF Alone
<1>10. Switched'
  <2>1. Whole(deployment)
    BY <1>1, <1>2 DEF Switched, Whole, BelongsTo, Switch!TERMINAL
  <2>2. Whole(deployment)'
    BY <1>4, <2>1 DEF Whole, BelongsTo
  <2> QED BY <1>4, <1>5, <2>2 DEF Switched, Checking
<1> QED BY <1>7, <1>8, <1>9, <1>10 DEF SwitchInv

LEMMA SaveRecoveryInv ==
  ASSUME Switch!TransitionAssumption, SwitchInv, Switch!SaveRecovery
  PROVE  SwitchInv'
<1>1. SwitchTypeOK /\ SwitchNumbered /\ SwitchPhased /\ Alone /\ Switched /\ mover = "recovery required"
  BY DEF SwitchInv, Switch!SaveRecovery
<1>2. transition # None /\ Begun /\ Mine /\ Switch!desktopTransitionPending
  BY <1>1 DEF SwitchPhased, Executing, Begun
<1>3. /\ transition' \in Switch!Journals /\ transition' # None /\ transition'.phase = "recovery-required"
      /\ transition'.id = transition.id /\ transition'.old = transition.old
      /\ mover' = "idle"
      /\ UNCHANGED <<plan, reservation, switch, deployment, owner, marker, service, updater, ordinary,
                     launcher, transitions, ordinaries>>
  BY <1>1, <1>2, Saved DEF Switch!SaveRecovery
<1>4. Begun' /\ Mine'
  BY <1>2, <1>3 DEF Begun, Mine
<1>5. SwitchTypeOK' /\ SwitchNumbered'
  BY <1>1, <1>2, <1>3, <1>4 DEF SwitchTypeOK, SwitchNumbered
<1>6. SwitchPhased'
  BY <1>3 DEF SwitchPhased, SwitchPlaces, Checking, Stopping, Leaving, Executing, Switch!Forward, Switch!Backward,
     Switch!Ending
<1>7. Alone'
  BY <1>1, <1>2, <1>3, <1>4 DEF Alone
<1>8. Switched'
  BY <1>1, <1>2, <1>3, <1>4 DEF Switched, Checking, Whole, BelongsTo
<1> QED BY <1>5, <1>6, <1>7, <1>8 DEF SwitchInv


-----------------------------------------------------------------------------
(* The worker in the engine.                                               *)

\* What the worker finds while it is in the engine.
LEMMA InEngine ==
  ASSUME SwitchInv, mover \in Executing
  PROVE  /\ SwitchTypeOK /\ SwitchNumbered /\ SwitchPhased /\ Alone /\ Switched
         /\ Begun /\ Mine /\ Switch!desktopTransitionPending
         /\ transition # None /\ switch # None /\ switch \in Switch!Updates /\ switch.phase \in SwitchPhases
         /\ transition.id \in Nat /\ transition.old.deployment \in Nat /\ transition.old.runtime \in Nat
         /\ ordinary # "leased" /\ (switch.phase # "failed" => ordinary = "idle")
<1>1. SwitchTypeOK /\ SwitchNumbered /\ SwitchPhased /\ Alone /\ Switched
  BY DEF SwitchInv
<1>2. Begun /\ Mine /\ Switch!desktopTransitionPending /\ mover \notin {"idle", "retire"}
  BY <1>1 DEF SwitchPhased, Executing, Switch!Forward, Switch!Backward, Switch!Ending
<1>3. transition # None /\ switch # None /\ transition.old \in Switch!Plans /\ transition.id \in Nat
  BY <1>1, <1>2, SwitchTyped DEF Begun, Mine
<1>4. transition.old.deployment \in Nat /\ transition.old.runtime \in Nat
  BY <1>3 DEF Switch!Plans
<1> QED BY <1>1, <1>2, <1>3, <1>4, SwitchTyped DEF Alone

\* A step of the engine gives the update in state.json another phase.
LEMMA EngineStep ==
  ASSUME Switch!TransitionAssumption, SwitchInv, mover \in Executing, NEW ph \in SwitchPhases,
         NEW next \in Executing,
         switch.phase # "failed", Switch!Engine(ph, next)
  PROVE  /\ SwitchTypeOK' /\ SwitchNumbered' /\ Alone' /\ Begun' /\ Mine' /\ Switch!desktopTransitionPending'
         /\ switch' # None /\ switch'.phase = ph /\ mover' = next
         /\ UNCHANGED <<transition, deployment, owner, marker, service, updater>>
<1>1. /\ SwitchTypeOK /\ SwitchNumbered /\ Alone /\ Begun /\ Mine /\ Switch!desktopTransitionPending
      /\ transition # None /\ switch # None /\ switch \in Switch!Updates /\ ordinary = "idle"
  BY InEngine
<1>2. /\ switch' = [switch EXCEPT !.phase = ph] /\ mover' = next
      /\ UNCHANGED <<transition, plan, reservation, deployment, owner, marker, service, updater, ordinary,
                     launcher, transitions, ordinaries>>
  BY DEF Switch!Engine, Switch!native, Switch!others, Switch!history
<1>3. switch' \in Switch!Updates /\ switch' # None /\ switch'.phase = ph /\ switch'.id = switch.id
  BY <1>1, <1>2, OtherPhase
<1>4. Begun' /\ Mine' /\ Switch!desktopTransitionPending'
  BY <1>1, <1>2, <1>3 DEF Begun, Mine, Switch!desktopTransitionPending
<1>5. SwitchTypeOK'
  BY <1>1, <1>2, <1>3 DEF SwitchTypeOK
<1>6. SwitchNumbered'
  <2>1. \A file \in {switch', reservation} \ {None, Partial} :
          file.id[1] = "transition" => transition # None /\ file.id[2] <= transition.id
    <3>1. \A file \in {switch, reservation} \ {None, Partial} :
            file.id[1] = "transition" => transition # None /\ file.id[2] <= transition.id
      BY <1>1 DEF SwitchNumbered
    <3>2. switch # Partial
      BY <1>1, SwitchNothing
    <3> QED BY <1>1, <1>3, <3>1, <3>2
  <2>2. transition.phase # "queued"
    BY <1>1 DEF Begun
  <2> QED BY <1>1, <1>2, <1>4, <2>1, <2>2 DEF SwitchNumbered, Switch!desktopTransitionPending
<1>7. Alone'
  <2>1. mover' # "stage"
    BY <1>2 DEF Executing, Switch!Forward, Switch!Backward, Switch!Ending
  <2> QED BY <1>1, <1>2, <1>4, <2>1 DEF Alone
<1> QED BY <1>2, <1>3, <1>4, <1>5, <1>6, <1>7

LEMMA EngineInv ==
  ASSUME Switch!TransitionAssumption, SwitchInv,
         \/ Switch!Prepared \/ Switch!BackedUp \/ Switch!Started \/ Switch!Succeeded \/ Switch!BeginRollback
            \/ Switch!RolledBack \/ Switch!GiveUp \/ Switch!Fail
         \/ Switch!execute /\ ~Switch!Finished /\ switch.phase \notin Switch!SWITCH_PHASES
  PROVE  SwitchInv'
<1>1. mover \in Executing
  BY DEF Switch!Prepared, Switch!BackedUp, Switch!Started, Switch!Succeeded, Switch!BeginRollback,
     Switch!RolledBack, Switch!GiveUp, Switch!Fail, Switch!execute, Executing, Switch!Forward,
         Switch!Backward, Switch!Ending
<1>2. /\ SwitchPhased /\ Switched /\ Begun /\ Mine /\ switch # None /\ switch.phase \in SwitchPhases
  BY <1>1, InEngine
<1>3. PICK ph \in SwitchPhases, next \in Executing :
        /\ Switch!Engine(ph, next)
        /\ \/ mover = "prepare" /\ switch.phase = "preparing" /\ ph = "pausing" /\ next = "pause"
           \/ mover = "back up" /\ switch.phase = "pausing" /\ ph = "starting" /\ next = "new deployment"
           \/ mover = "started" /\ switch.phase = "starting" /\ ph = "verifying" /\ next = "verify"
           \/ mover = "verified" /\ switch.phase = "verifying" /\ ph = "succeeded" /\ next = "end"
           \/ mover = "rollback" /\ switch.phase \in Switch!SWITCH_PHASES /\ ph = "rolling-back"
              /\ next = "rollback pause"
           \/ mover = "old verify" /\ switch.phase = "rolling-back" /\ ph = "rolled-back" /\ next = "end"
           \/ mover = "give up" /\ switch.phase \in Switch!SWITCH_PHASES /\ ph = "recovery-required"
              /\ next = "recovery required"
           \/ mover = "fail" /\ switch.phase \in {"queued", "preparing"} /\ ph = "failed" /\ next = "end"
           \/ mover = "execute" /\ switch.phase = "queued" /\ ph = "preparing" /\ next = "prepare"
           \/ mover = "execute" /\ switch.phase = "preparing" /\ ph = "failed" /\ next = "end"
  <2>1. {"preparing", "pausing", "starting", "verifying", "succeeded", "rolling-back", "rolled-back",
         "recovery-required", "failed"} \subseteq SwitchPhases
    BY DEF SwitchPhases, Switch!SWITCH_PHASES, Switch!FINISHED_PHASES
  <2>2. {"pause", "new deployment", "verify", "end", "rollback pause", "recovery required", "prepare"} \subseteq Executing
    BY DEF Executing, Switch!Forward, Switch!Backward, Switch!Ending
  <2>3. CASE Switch!Prepared
    BY <1>2, <2>1, <2>2, <2>3 DEF Switch!Prepared, SwitchPhased
  <2>4. CASE Switch!BackedUp
    BY <1>2, <2>1, <2>2, <2>4 DEF Switch!BackedUp, SwitchPhased
  <2>5. CASE Switch!Started
    BY <1>2, <2>1, <2>2, <2>5 DEF Switch!Started, SwitchPhased
  <2>6. CASE Switch!Succeeded
    BY <1>2, <2>1, <2>2, <2>6 DEF Switch!Succeeded, SwitchPhased
  <2>7. CASE Switch!BeginRollback
    BY <1>2, <2>1, <2>2, <2>7 DEF Switch!BeginRollback, SwitchPhased
  <2>8. CASE Switch!RolledBack
    BY <1>2, <2>1, <2>2, <2>8 DEF Switch!RolledBack, SwitchPhased, Switch!Backward
  <2>9. CASE Switch!GiveUp
    BY <1>2, <2>1, <2>2, <2>9 DEF Switch!GiveUp, SwitchPhased
  <2>10. CASE Switch!Fail
    BY <1>2, <2>1, <2>2, <2>10 DEF Switch!Fail, SwitchPhased
  <2>11. CASE Switch!execute /\ ~Switch!Finished /\ switch.phase \notin Switch!SWITCH_PHASES
    <3>1. switch.phase \in {"queued", "preparing"}
      BY <1>2, <2>11 DEF Switch!Finished, SwitchPhases
    <3> QED BY <2>1, <2>2, <2>11, <3>1 DEF Switch!execute
  <2> QED BY <2>3, <2>4, <2>5, <2>6, <2>7, <2>8, <2>9, <2>10, <2>11
<1>4. switch.phase # "failed"
  BY <1>3 DEF Switch!SWITCH_PHASES
<1>5. /\ SwitchTypeOK' /\ SwitchNumbered' /\ Alone' /\ Begun' /\ Mine' /\ Switch!desktopTransitionPending'
      /\ switch' # None /\ switch'.phase = ph /\ mover' = next
      /\ UNCHANGED <<transition, deployment, owner, marker, service, updater>>
  BY <1>1, <1>3, <1>4, EngineStep
<1>6. SwitchPhased'
  BY <1>3, <1>5 DEF SwitchPhased, SwitchPlaces, Checking, Stopping, Leaving, Executing, Switch!Forward,
     Switch!Backward, Switch!Ending,
              Switch!SWITCH_PHASES, Switch!FINISHED_PHASES
<1>7. Switched'
  <2>1. ph = "succeeded" => Whole(transition.id)
    BY <1>2, <1>3 DEF Switched, Whole, BelongsTo
  <2>2. ph = "rolled-back" => Whole(transition.old.deployment)
    <3>1. SUFFICES ASSUME mover = "old verify" PROVE Whole(transition.old.deployment)
      BY <1>3
    <3>2. /\ service = transition.old.deployment /\ deployment = transition.old.deployment
             /\ marker = transition.old.deployment
          /\ updater = [of |-> transition.old.deployment, on |-> TRUE]
          /\ owner.of = transition.old.deployment /\ ~owner.paused
      BY <1>2, <3>1 DEF Switched
    <3> QED BY <3>2 DEF Whole, BelongsTo
  <2>3. ph \in {"preparing", "failed"} => BelongsTo(transition.old.deployment)
    BY <1>2, <1>3 DEF Switched
  <2>4. /\ ph = "succeeded" => Whole(transition.id)'
        /\ ph = "rolled-back" => Whole(transition.old.deployment)'
        /\ ph \in {"preparing", "failed"} => BelongsTo(transition.old.deployment)'
    BY <1>5, <2>1, <2>2, <2>3 DEF Whole, BelongsTo
  <2>5. ph # "queued" /\ next # "save failed" /\ next # "save end" /\ next \notin Checking
    BY <1>3 DEF Checking
  <2>6. next = "verify" =>
          /\ deployment' = transition'.id /\ service' = transition'.id
             /\ updater' = [of |-> transition'.id, on |-> TRUE]
          /\ owner'.of = transition'.id /\ ~owner'.paused
    BY <1>2, <1>3, <1>5 DEF Switched
  <2>7. next \in {"pause", "new deployment", "verify", "end", "rollback pause", "recovery required", "prepare"}
    BY <1>3
  <2> QED BY <1>5, <2>4, <2>5, <2>6, <2>7 DEF Switched
<1> QED BY <1>5, <1>6, <1>7 DEF SwitchInv


\* An effect leaves the journal and state.json; only what has been switched so far is at stake.
LEMMA EffectStep ==
  ASSUME Switch!TransitionAssumption, SwitchInv, mover \in Switch!Forward \cup Switch!Backward,
         mover' \in Switch!Forward \cup Switch!Backward,
         switch.phase \in Switch!SWITCH_PHASES \ {"recovery-required"},
         UNCHANGED <<transition, reservation, switch, Switch!others, transitions, ordinaries>>,
         deployment' \in Nat, owner' \in [of : Nat, version : Nat, paused : BOOLEAN],
         updater' \in [of : Nat, on : BOOLEAN]
  PROVE  SwitchTypeOK' /\ SwitchNumbered' /\ Alone' /\ Begun' /\ Mine' /\ Switch!desktopTransitionPending'
<1>1. mover \in Executing /\ mover' \notin {"idle", "retire", "stage"}
  BY DEF Executing, Switch!Forward, Switch!Backward
<1>2. /\ SwitchTypeOK /\ SwitchNumbered /\ Alone /\ Begun /\ Mine /\ Switch!desktopTransitionPending
      /\ ordinary # "leased" /\ (switch.phase # "failed" => ordinary = "idle")
  BY <1>1, InEngine
<1>3. UNCHANGED <<plan, ordinary, launcher>>
  BY DEF Switch!others
<1> QED BY <1>1, <1>2, <1>3 DEF SwitchTypeOK, SwitchNumbered, Alone, Begun, Mine, Switch!desktopTransitionPending

LEMMA EffectInv ==
  ASSUME Switch!TransitionAssumption, SwitchInv,
         \/ Switch!Pause \/ Switch!SelectDeployment \/ Switch!Unload \/ Switch!Load \/ Switch!LoadUpdater
            \/ Switch!RestoreMetadata \/ Switch!resumeManagedServer
         \/ Switch!Verified
  PROVE  SwitchInv'
<1>1. /\ mover \in Switch!Forward \cup Switch!Backward /\ mover' \in Switch!Forward \cup Switch!Backward
         /\ mover \in Executing
      /\ UNCHANGED <<transition, reservation, switch, Switch!others, transitions, ordinaries>>
  BY DEF Switch!Pause, Switch!SelectDeployment, Switch!Unload, Switch!Load, Switch!LoadUpdater,
     Switch!RestoreMetadata, Switch!resumeManagedServer, Switch!Verified,
         Switch!Forward, Switch!Backward, Executing, Switch!files, Switch!native, Switch!history
<1>2. /\ SwitchTypeOK /\ SwitchPhased /\ Switched /\ Begun /\ Mine /\ switch # None
      /\ transition.id \in Nat /\ transition.old.deployment \in Nat /\ transition.old.runtime \in Nat
  BY <1>1, InEngine
<1>3. /\ mover \in {"pause", "new deployment", "new unload", "new service", "new updater", "new resume", "verify",
                     "rollback pause", "old deployment", "old unload", "old service", "old updater", "old metadata",
                     "old resume"}
      /\ mover' = CASE mover = "pause" -> "back up" [] mover = "new deployment" -> "new unload"
                     [] mover = "new unload" -> "new service" [] mover = "new service" -> "new updater"
                     [] mover = "new updater" -> "new resume" [] mover = "new resume" -> "started"
                     [] mover = "verify" -> "verified"
                     [] mover = "rollback pause" -> "old deployment" [] mover = "old deployment" -> "old unload"
                     [] mover = "old unload" -> "old service" [] mover = "old service" -> "old updater"
                     [] mover = "old updater" -> "old metadata" [] mover = "old metadata" -> "old resume"
                     [] mover = "old resume" -> "old verify"
  BY DEF Switch!Pause, Switch!SelectDeployment, Switch!Unload, Switch!Load, Switch!LoadUpdater,
     Switch!RestoreMetadata, Switch!resumeManagedServer, Switch!Verified
<1>4. switch.phase \in Switch!SWITCH_PHASES \ {"recovery-required"}
  BY <1>2, <1>3 DEF SwitchPhased, Switch!Backward, Switch!SWITCH_PHASES
<1>5. /\ deployment' \in Nat /\ owner' \in [of : Nat, version : Nat, paused : BOOLEAN]
      /\ updater' \in [of : Nat, on : BOOLEAN]
  <2>1. deployment' \in {deployment, transition.id, transition.old.deployment}
    BY DEF Switch!Pause, Switch!SelectDeployment, Switch!Unload, Switch!Load, Switch!LoadUpdater,
       Switch!RestoreMetadata, Switch!resumeManagedServer, Switch!Verified,
           Switch!files, Switch!native
  <2>2. updater' \in {updater, [of |-> transition.id, on |-> TRUE], [of |-> transition.old.deployment, on |-> TRUE]}
    BY DEF Switch!Pause, Switch!SelectDeployment, Switch!Unload, Switch!Load, Switch!LoadUpdater,
       Switch!RestoreMetadata, Switch!resumeManagedServer, Switch!Verified,
           Switch!files, Switch!native
  <2>3. owner' \in {owner, [owner EXCEPT !.paused = TRUE], [of |-> transition.id, version |-> 0, paused |-> FALSE],
                      [of |-> transition.old.deployment, version |-> transition.old.runtime, paused |-> FALSE]}
    BY DEF Switch!Pause, Switch!SelectDeployment, Switch!Unload, Switch!Load, Switch!LoadUpdater,
       Switch!RestoreMetadata, Switch!resumeManagedServer, Switch!Verified,
           Switch!files, Switch!native
  <2>4. [owner EXCEPT !.paused = TRUE] \in [of : Nat, version : Nat, paused : BOOLEAN]
    BY <1>2 DEF SwitchTypeOK
  <2>5. PICK i \in Nat, o \in Nat, r \in Nat : i = transition.id /\ o = transition.old.deployment
        /\ r = transition.old.runtime
    BY <1>2
  <2>6. /\ [of |-> i, on |-> TRUE] \in [of : Nat, on : BOOLEAN]
        /\ [of |-> o, on |-> TRUE] \in [of : Nat, on : BOOLEAN]
        /\ [of |-> i, version |-> 0, paused |-> FALSE] \in [of : Nat, version : Nat, paused : BOOLEAN]
        /\ [of |-> o, version |-> r, paused |-> FALSE] \in [of : Nat, version : Nat, paused : BOOLEAN]
    OBVIOUS
  <2>7. deployment \in Nat /\ updater \in [of : Nat, on : BOOLEAN]
        /\ owner \in [of : Nat, version : Nat, paused : BOOLEAN]
    BY <1>2 DEF SwitchTypeOK
  <2>8. deployment' \in Nat
    BY <2>1, <2>5, <2>7
  <2>9. updater' \in [of : Nat, on : BOOLEAN]
    BY <2>2, <2>5, <2>6, <2>7
  <2>10. owner' \in [of : Nat, version : Nat, paused : BOOLEAN]
    BY <2>3, <2>4, <2>5, <2>6, <2>7
  <2> QED BY <2>8, <2>9, <2>10
<1>6. /\ SwitchTypeOK' /\ SwitchNumbered' /\ Alone' /\ Begun' /\ Mine' /\ Switch!desktopTransitionPending'
      /\ switch' = switch /\ transition' = transition /\ switch' # None
  BY <1>1, <1>2, <1>4, <1>5, EffectStep
<1>7. SwitchPhased'
  BY <1>2, <1>3, <1>6 DEF SwitchPhased, SwitchPlaces, Checking, Stopping, Leaving, Executing, Switch!Forward,
     Switch!Backward, Switch!Ending
<1>8. Switched'
  <2>1. /\ switch'.phase \in Switch!SWITCH_PHASES \ {"recovery-required"}
           /\ mover' \notin Checking \cup {"save failed", "save end"}
    BY <1>1, <1>4, <1>6 DEF Switch!Forward, Switch!Backward, Checking
  <2>2. CASE Switch!Pause
    BY <1>2, <1>6, <2>1, <2>2 DEF Switch!Pause, Switched, Switch!SWITCH_PHASES, Switch!native
  <2>3. CASE Switch!SelectDeployment
    BY <1>2, <1>6, <2>1, <2>3 DEF Switch!SelectDeployment, Switched, Switch!SWITCH_PHASES, Switch!native
  <2>4. CASE Switch!Unload
    BY <1>2, <1>6, <2>1, <2>4 DEF Switch!Unload, Switched, Switch!SWITCH_PHASES, Switch!files
  <2>5. CASE Switch!Load
    BY <1>2, <1>6, <2>1, <2>5 DEF Switch!Load, Switched, Switch!SWITCH_PHASES, Switch!files
  <2>6. CASE Switch!LoadUpdater
    BY <1>2, <1>6, <2>1, <2>6 DEF Switch!LoadUpdater, Switched, Switch!SWITCH_PHASES, Switch!files
  <2>7. CASE Switch!RestoreMetadata
    BY <1>2, <1>6, <2>1, <2>7 DEF Switch!RestoreMetadata, Switched, Switch!SWITCH_PHASES, Switch!native
  <2>8. CASE Switch!resumeManagedServer
    BY <1>2, <1>6, <2>1, <2>8 DEF Switch!resumeManagedServer, Switched, Switch!SWITCH_PHASES, Switch!native
  <2>9. CASE Switch!Verified
    BY <1>2, <1>6, <2>1, <2>9 DEF Switch!Verified, Switched, Switch!SWITCH_PHASES, Switch!native
  <2> QED BY <2>2, <2>3, <2>4, <2>5, <2>6, <2>7, <2>8, <2>9
<1> QED BY <1>6, <1>7, <1>8 DEF SwitchInv


\* The worker alone moves: it retires, goes to the end or to the rollback, or meets an exception.
LEMMA WorkerInv ==
  ASSUME Switch!TransitionAssumption, SwitchInv,
         \/ Switch!Retire \/ Switch!Refused \/ Switch!StepFails \/ Switch!WorkerDies
         \/ Switch!execute /\ (Switch!Finished \/ switch.phase \in Switch!SWITCH_PHASES)
  PROVE  SwitchInv'
<1>1. /\ SwitchTypeOK /\ SwitchNumbered /\ SwitchPhased /\ Alone /\ Switched
      /\ UNCHANGED <<transition, plan, reservation, switch, deployment, owner, marker, service, updater,
                     ordinary, launcher, transitions, ordinaries>>
  BY DEF SwitchInv, Switch!Retire, Switch!Refused, Switch!StepFails, Switch!WorkerDies, Switch!execute,
     Switch!Goto, Switch!files, Switch!native, Switch!others, Switch!history
<1>2. mover' = "idle" => SwitchInv'
  <2>1. UNCHANGED <<Switch!files, Switch!others>>
    BY DEF Switch!Retire, Switch!Refused, Switch!StepFails, Switch!WorkerDies, Switch!execute, Switch!Goto
  <2> QED BY <1>1, <2>1, WorkerStops
<1>3. SUFFICES ASSUME mover' # "idle" PROVE SwitchInv'
  BY <1>2
<1>4. \/ mover = "execute" /\ Switch!Finished /\ mover' = "end"
      \/ mover = "execute" /\ switch.phase \in Switch!SWITCH_PHASES /\ mover' = "rollback"
      \/ mover # "idle" /\ mover' = Switch!Exception
  BY <1>3 DEF Switch!Retire, Switch!Refused, Switch!StepFails, Switch!WorkerDies, Switch!execute, Switch!Goto
<1>5. mover \in Executing
      => /\ Begun /\ Mine /\ switch # None /\ switch.phase \in SwitchPhases /\ transition # None
  BY InEngine
<1>6. \/ mover' = "end" /\ mover \in Executing /\ switch.phase \in Switch!FINISHED_PHASES
      \/ mover' = "rollback" /\ mover \in Executing /\ switch.phase \in Switch!SWITCH_PHASES
      \/ mover' = "fail" /\ mover \in Executing /\ switch.phase \in {"queued", "preparing"}
      \/ mover' = "give up" /\ mover \in Executing /\ switch.phase \in Switch!SWITCH_PHASES
      \/ mover' = "recovery required" /\ mover \in Executing
      \/ mover' = "release reservation" /\ mover \in Checking \cup Stopping
  <2>1. CASE mover \in Switch!Queueing
    <3>1. mover \notin Switch!Forward \cup Switch!Backward \cup Switch!Ending /\ mover # "execute"
          /\ mover \in Checking \cup Stopping
      BY <2>1 DEF Switch!Queueing, Switch!Forward, Switch!Backward, Switch!Ending, Checking, Stopping
    <3> QED BY <1>4, <2>1, <3>1 DEF Switch!Exception
  <2>2. CASE mover \in Switch!Forward
    <3>1. mover \notin Switch!Queueing \cup Switch!Backward \cup Switch!Ending /\ mover # "execute"
          /\ mover \in Executing
      BY <2>2 DEF Switch!Queueing, Switch!Forward, Switch!Backward, Switch!Ending, Executing
    <3>2. switch.phase \in Switch!SWITCH_PHASES \cup {"preparing"}
      BY <1>1, <2>2 DEF SwitchPhased, Switch!Forward, Switch!SWITCH_PHASES
    <3> QED BY <1>4, <2>2, <3>1, <3>2 DEF Switch!Exception
  <2>3. CASE mover = "execute"
    <3>1. mover \notin Switch!Queueing \cup Switch!Forward \cup Switch!Backward \cup Switch!Ending
          /\ mover \in Executing
      BY <2>3 DEF Switch!Queueing, Switch!Forward, Switch!Backward, Switch!Ending, Executing
    <3>2. Switch!Finished <=> switch.phase \in Switch!FINISHED_PHASES
      BY <1>5, <3>1 DEF Switch!Finished
    <3>3. switch.phase \in {"queued", "preparing"} \cup Switch!SWITCH_PHASES \cup Switch!FINISHED_PHASES
      BY <1>5, <3>1 DEF SwitchPhases
    <3> QED BY <1>4, <2>3, <3>1, <3>2, <3>3 DEF Switch!Exception
  <2>4. CASE mover \in Switch!Backward
    <3>1. mover \notin Switch!Queueing \cup Switch!Forward \cup Switch!Ending /\ mover # "execute"
          /\ mover \in Executing
      BY <2>4 DEF Switch!Queueing, Switch!Forward, Switch!Backward, Switch!Ending, Executing
    <3>2. switch.phase \in Switch!SWITCH_PHASES
      BY <1>1, <2>4 DEF SwitchPhased, Switch!Backward, Switch!SWITCH_PHASES
    <3> QED BY <1>4, <2>4, <3>1, <3>2 DEF Switch!Exception
  <2>5. CASE mover \in Switch!Ending
    <3>1. mover \notin Switch!Queueing \cup Switch!Forward \cup Switch!Backward /\ mover # "execute"
          /\ mover \in Executing
      BY <2>5 DEF Switch!Queueing, Switch!Forward, Switch!Backward, Switch!Ending, Executing
    <3> QED BY <1>4, <2>5, <3>1 DEF Switch!Exception
  <2>6. CASE mover \notin Switch!Queueing \cup Switch!Forward \cup Switch!Backward \cup Switch!Ending \cup {"execute"}
    BY <1>3, <1>4, <2>6 DEF Switch!Exception
  <2> QED BY <2>1, <2>2, <2>3, <2>4, <2>5, <2>6
<1>7. SwitchTypeOK' /\ SwitchNumbered'
  BY <1>1 DEF SwitchTypeOK, SwitchNumbered, Mine, Switch!desktopTransitionPending
<1>8. SwitchPhased'
  BY <1>1, <1>5, <1>6 DEF SwitchPhased, Begun, Mine, Switch!desktopTransitionPending, SwitchPlaces, Checking,
     Stopping, Leaving,
              Executing, Switch!Forward, Switch!Backward, Switch!Ending
<1>9. Alone'
  <2>1. mover \notin {"idle", "retire"} /\ mover' # "stage"
    BY <1>6 DEF Executing, Switch!Forward, Switch!Backward, Switch!Ending, Checking, Stopping
  <2> QED BY <1>1, <2>1 DEF Alone, Begun, Mine
<1>10. Switched'
  <2>1. mover' \in {"end", "rollback", "fail", "give up", "recovery required", "release reservation"}
    BY <1>6
  <2> QED BY <1>1, <2>1 DEF Switched, Begun, Mine, Whole, BelongsTo, Checking
<1> QED BY <1>7, <1>8, <1>9, <1>10 DEF SwitchInv

-----------------------------------------------------------------------------
(* The theorem.                                                            *)

LEMMA InvInit ==
  ASSUME Switch!TransitionAssumption, Switch!Init
  PROVE  SwitchInv
<1>1. /\ transition = None /\ reservation = None /\ switch = None /\ plan = None /\ transitions = 0
         /\ ordinaries = 0
      /\ deployment = 0 /\ owner = [of |-> 0, version |-> 0, paused |-> FALSE] /\ marker = 0
      /\ service = 0 /\ updater = [of |-> 0, on |-> TRUE] /\ mover = "idle" /\ ordinary = "idle"
         /\ launcher = "idle"
  BY DEF Switch!Init
<1>2. SwitchTypeOK /\ SwitchNumbered
  BY <1>1 DEF SwitchTypeOK, SwitchNumbered, Switch!desktopTransitionPending
<1>3. SwitchPhased /\ Alone
  BY <1>1 DEF SwitchPhased, Alone, Begun, SwitchPlaces, Checking, Stopping, Leaving, Executing, Switch!Forward,
     Switch!Backward, Switch!Ending
<1>4. Switched
  BY <1>1 DEF Switched, Begun, Whole, BelongsTo, Checking
<1> QED BY <1>2, <1>3, <1>4 DEF SwitchInv

LEMMA SwitchInvStep ==
  ASSUME Switch!TransitionAssumption, SwitchInv, [Switch!Next]_Switch!vars
  PROVE  SwitchInv'
<1>1. CASE Switch!requestDesktopTransition \/ Switch!LauncherDies
  BY <1>1, LauncherInv
<1>2. CASE Switch!Publish
  BY <1>2, PublishInv
<1>3. CASE Switch!Register
  BY <1>3, RegisterInv
<1>4. CASE Switch!enqueueUpdate \/ Switch!CommandStep \/ Switch!CommandDies
  BY <1>4, CommandInv
<1>5. CASE Switch!UpdaterStep
  BY <1>5, SwitchStartInv, RunInv DEF Switch!UpdaterStep
<1>6. CASE Switch!TransitionStep
  <2>1. CASE Switch!TimerFires \/ Switch!assertIdle \/ Switch!Reserve \/ Switch!WriteReservation
             \/ Switch!releaseReservation
    BY <2>1, TimerInv, AssertIdleInv, ReservationInv
  <2>2. CASE Switch!SaveSwitching \/ Switch!stopUpdater \/ Switch!Stage \/ Switch!restoreUpdater
    BY <2>2, SaveSwitchingInv, StopUpdaterInv, StageInv, RestoreUpdaterInv
  <2>3. CASE Switch!SaveFailed \/ Switch!SaveEnd \/ Switch!SaveRecovery
    BY <2>3, SaveEndInv, SaveRecoveryInv
  <2>4. CASE Switch!execute \/ Switch!Retire \/ Switch!Refused
    BY <2>4, EngineInv, WorkerInv
  <2>5. CASE Switch!Prepared \/ Switch!BackedUp \/ Switch!Started \/ Switch!Succeeded \/ Switch!BeginRollback
             \/ Switch!RolledBack \/ Switch!GiveUp \/ Switch!Fail
    BY <2>5, EngineInv
  <2>6. CASE \/ Switch!Pause \/ Switch!SelectDeployment \/ Switch!Unload \/ Switch!Load \/ Switch!LoadUpdater
                \/ Switch!RestoreMetadata
             \/ Switch!resumeManagedServer \/ Switch!Verified
    BY <2>6, EffectInv
  <2> QED BY <1>6, <2>1, <2>2, <2>3, <2>4, <2>5, <2>6 DEF Switch!TransitionStep
<1>7. CASE Switch!StepFails \/ Switch!WorkerDies
  BY <1>7, WorkerInv
<1>8. CASE UNCHANGED Switch!vars
  <2>1. /\ SwitchTypeOK /\ SwitchNumbered /\ Alone
        /\ UNCHANGED <<transition, plan, reservation, switch, deployment, owner, marker, service, updater, mover,
                       ordinary, launcher, transitions, ordinaries>>
    BY <1>8 DEF Switch!vars, Switch!files, Switch!native, Switch!others, Switch!history, SwitchInv
  <2>2. SwitchTypeOK' /\ SwitchNumbered'
    BY <2>1 DEF SwitchTypeOK, SwitchNumbered, Mine, Switch!desktopTransitionPending
  <2>3. Alone'
    BY <2>1 DEF Alone, Begun, Mine
  <2> QED BY <2>1, <2>2, <2>3, Same DEF SwitchInv
<1> QED BY <1>1, <1>2, <1>3, <1>4, <1>5, <1>6, <1>7, <1>8 DEF Switch!Next

\* Whatever the launcher, the update command, the ordinary updater and the transition's worker
\* do to the same files, whichever step fails and whenever the worker dies: unless a transition
\* is pending, the record, the services, the markers and the selected runtime are of one
\* installation, and its updater runs.
THEOREM SwitchStaysWhole ==
  Switch!TransitionAssumption => (Switch!Spec => []Switch!InstallationIsWhole)
<1> SUFFICES ASSUME Switch!TransitionAssumption PROVE Switch!Spec => []Switch!InstallationIsWhole
  OBVIOUS
<1>1. Switch!Init => SwitchInv
  BY InvInit
<1>2. SwitchInv /\ [Switch!Next]_Switch!vars => SwitchInv'
  BY SwitchInvStep
<1>3. SwitchInv => Switch!InstallationIsWhole
  BY DEF SwitchInv, SwitchTypeOK, Switch!Journals, Switched, Begun, Whole, BelongsTo, Switch!InstallationIsWhole,
     Switch!desktopTransitionPending, Switch!TERMINAL
<1> QED BY <1>1, <1>2, <1>3, PTL DEF Switch!Spec

-----------------------------------------------------------------------------
(***************************************************************************)
(* The components side by side (MCSettles).                                *)
(***************************************************************************)

\* A behaviour of MCSettles is one of each component.
LEMMA Components ==
  /\ MCInit => Claude!Init /\ Cli!Init /\ Update!Init /\ Switch!Init
  /\ [MCNext]_<<work, vars, claude, update, switching, updateCli>> =>
       [Claude!Next]_Claude!vars /\ [Cli!Next]_Cli!vars /\ [Update!Next]_Update!vars
       /\ [Switch!Next]_Switch!vars
<1>1. MCInit => Claude!Init /\ Cli!Init /\ Update!Init /\ Switch!Init
  BY DEF MCInit
<1>2. /\ UNCHANGED updateCli => UNCHANGED Cli!vars
      /\ UNCHANGED update => UNCHANGED Update!vars
      /\ UNCHANGED switching => UNCHANGED Switch!vars
      /\ UNCHANGED claude => UNCHANGED Claude!vars
  BY DEF claude, Claude!vars, updateCli, update, switching, Cli!vars, Cli!world, Cli!idle, Cli!bounds, Cli!history,
     Update!vars, Update!files, Update!copies, Update!history,
     Switch!vars, Switch!files, Switch!native, Switch!others, Switch!history
<1>3. [MCNext]_<<work, vars, claude, update, switching, updateCli>> =>
        /\ Cli!Next \/ UNCHANGED updateCli
        /\ Update!Next \/ UNCHANGED update
        /\ Switch!Next \/ UNCHANGED switching
        /\ Claude!Next \/ UNCHANGED claude
  BY DEF MCNext
<1> QED BY <1>1, <1>2, <1>3

\* The same for the chat beside the rest of the program: one process works in its session
\* until the end of a replaced session removed its successor's entry (`trespassed`), and it
\* works on no prompt but the active turn's and cancelled ones until a result that no prompt
\* asked for took a prompt's place (`misled`, agent.ts:2012).
THEOREM WorkIsNotHidden == MCSpec => []NoHiddenWork
<1>1. MCSpec => Claude!Spec
  BY Components, PTL DEF MCSpec, Claude!Spec
<1>2. Claude!ClaudeAssumption
  BY MCSettlesAssumption
<1>3. Claude!Spec => []NoHiddenWork
  BY <1>2, ClaudeHidesNothing
<1> QED BY <1>1, <1>3, PTL

\* The same for a server, its updater and its installation in one program: no two installers
\* are at work on a CLI, no agent beside one, and a consent is good for two at most.
THEOREM UpdatesInstallAlone == MCSpec => []InstallsAlone
<1>1. MCSpec => Cli!Spec
  BY Components, PTL DEF MCSpec, Cli!Spec
<1>2. Cli!CliUpdatesAssumption
  BY MCSettlesAssumption
<1>3. Cli!Spec => []Cli!InstallsAlone
  BY <1>2, CliUpdatesAreSafe
<1> QED BY <1>1, <1>3, PTL DEF InstallsAlone

\* An update of the program loses nothing of the user's data (updater/engine.ts backUp,
\* restoreData), whatever fails or dies, unless a launch was decided before a switch that it
\* met (control.ts:129, `stale`).
THEOREM DataSurvives == MCSpec => []DataIsSafe
<1>1. MCSpec => Update!Spec
  BY Components, PTL DEF MCSpec, Update!Spec
<1>2. Update!UpdateAssumption
  BY MCSettlesAssumption
<1>3. Update!Spec => []Update!DataIsSafe
  BY <1>2, UpdateKeepsData
<1> QED BY <1>1, <1>3, PTL DEF DataIsSafe

\* A finished update is never executed again (updater/engine.ts claimRequest, execute).
THEOREM UpdatesOnce == MCSpec => OutcomeIsFinal
<1>1. MCSpec => Update!Spec
  BY Components, PTL DEF MCSpec, Update!Spec
<1>2. Update!UpdateAssumption
  BY MCSettlesAssumption
<1>3. Update!Spec => Update!OutcomeIsFinal
  BY <1>2, UpdateEndsOnce
<1> QED BY <1>1, <1>3 DEF OutcomeIsFinal

\* Unless a switch is pending, everything on the computer is of one installation
\* (distribution/transition.ts), whatever fails or dies.
THEOREM InstallationStaysWhole == MCSpec => []InstallationIsWhole
<1>1. MCSpec => Switch!Spec
  BY Components, PTL DEF MCSpec, Switch!Spec
<1>2. Switch!TransitionAssumption
  BY MCSettlesAssumption
<1>3. Switch!Spec => []Switch!InstallationIsWhole
  BY <1>2, SwitchStaysWhole
<1> QED BY <1>1, <1>3, PTL DEF InstallationIsWhole
=============================================================================
