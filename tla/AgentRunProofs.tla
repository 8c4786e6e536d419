--------------------------- MODULE AgentRunProofs ---------------------------
(***************************************************************************)
(* What a call of run leaves behind and what the file of records says, for *)
(* every number of candidates, of faults and of deaths of the bot: the     *)
(* agent whose result it is has ended and the return code of an app server *)
(* is that of its turn; the file names every process at work, and a        *)
(* restarted bot does not start a second one - as long as nobody has       *)
(* overwritten the file from a copy out of date.                           *)
(***************************************************************************)
EXTENDS AgentRun, TLAPS

Pcs == Asking \union
  {"ready", "register", "recording", "collect", "closing", "launch", "prompt",
   "wait", "unregister", "unrecording", "done", "dead"}
Modes == {"none", "app-server", "exec"}
Turns == {"none", "running", "completed", "failed"}
Reports == {"none", "completed", "failed"}
Servers == {"none", "up", "gone"}
Execs == {"none", "started", "working", "gone"}

\* The domains that the steps write to.
Shape ==
  /\ pc \in [Candidates -> Pcs]
  /\ mode \in [Candidates -> Modes]
  /\ failing \in [Candidates -> BOOLEAN] /\ reader \in [Candidates -> BOOLEAN]
  /\ result \in [Candidates -> Modes \union {"raised"}]
  /\ server \in [Candidates -> Servers] /\ exec \in [Candidates -> Execs]
  /\ turn \in [Candidates -> Turns] /\ heard \in [Candidates -> Reports]

\* Where a thread stands tells which of the two processes it drives; an exec is
\* started only once the app server has been given up.
ModeFollowsPc(c) ==
  /\ pc[c] \in {"ready", "snapshot"} => mode[c] = "none"
  /\ pc[c] \in (Asking \ {"snapshot"}) \union {"collect", "closing"}
       => mode[c] = "app-server"
  /\ pc[c] \in {"launch", "prompt", "wait"} => mode[c] = "exec"
  /\ pc[c] \in {"register", "recording", "unregister", "unrecording"}
       => mode[c] \in {"app-server", "exec"}
  /\ exec[c] # "none" => mode[c] = "exec"
  /\ exec[c] = "working" => pc[c] \in {"wait", "dead"}
  /\ pc[c] = "launch" => exec[c] = "none"

\* Only a call that has returned has a result, and then its kind is its mode.
ResultAtEnd(c) ==
  /\ result[c] # "none" => pc[c] = "done"
  /\ result[c] = "app-server" => mode[c] = "app-server"

\* What is heard is the end of the turn.
HeardIsTurn(c) == heard[c] = "none" \/ (heard[c] = turn[c] /\ turn[c] # "running")

\* Once an app server has been shut down and read to its end nothing moves any
\* more; it stays so while its record is taken away and after.
Settled(c) == server[c] = "gone" /\ (heard[c] = "completed" <=> turn[c] = "completed")

ClosedIsSettled(c) ==
  /\ pc[c] = "closing" => server[c] = "gone"
  /\ pc[c] \in {"unregister", "unrecording"} /\ mode[c] = "app-server" /\ ~failing[c]
       => Settled(c)
  /\ result[c] = "app-server" => Settled(c)

RunOf(c) == ModeFollowsPc(c) /\ ResultAtEnd(c) /\ HeardIsTurn(c) /\ ClosedIsSettled(c)

RunInv == Shape /\ \A c \in Candidates : RunOf(c)

-----------------------------------------------------------------------------
\* The initial states satisfy the invariant.
LEMMA InitInvariant == Init => RunInv
BY DEF Init, RunInv, RunOf, Shape, ModeFollowsPc, ResultAtEnd, HeardIsTurn,
       ClosedIsSettled, Pcs, Modes, Turns, Reports, Servers, Execs, Asking

Others(c) ==
  \A d \in Candidates \ {c} :
    /\ pc'[d] = pc[d] /\ mode'[d] = mode[d] /\ failing'[d] = failing[d]
    /\ result'[d] = result[d] /\ server'[d] = server[d] /\ turn'[d] = turn[d]
    /\ heard'[d] = heard[d] /\ reader'[d] = reader[d] /\ exec'[d] = exec[d]

\* A step of one candidate does not reach the others: it is enough that it keeps
\* the domains and its own part.
LEMMA OwnStep ==
  ASSUME RunInv, NEW c \in Candidates, Shape', Others(c), RunOf(c)'
  PROVE  RunInv'
BY DEF RunInv, Others, RunOf, ModeFollowsPc, ResultAtEnd, HeardIsTurn, ClosedIsSettled,
       Settled

\* The call begins and the app server is asked.
LEMMA AskingKeeps ==
  ASSUME RunInv, NEW c \in Candidates,
         Call(c) \/ SnapshotRead(c) \/ Answered(c) \/ Refused(c)
  PROVE  RunInv' /\ Others(c)
<1> USE DEF Goes, Boots, Raises, Listening, Asking
<1>1. CASE Call(c)
  <2>1. Shape'
    <3>1. pc' \in [Candidates -> Pcs]
      BY <1>1 DEF RunInv, Shape, Pcs, Call, served
    <3>2. mode' \in [Candidates -> Modes]
      BY <1>1 DEF RunInv, Shape, Modes, Call, served
    <3>3. failing' \in [Candidates -> BOOLEAN] /\ reader' \in [Candidates -> BOOLEAN]
      BY <1>1 DEF RunInv, Shape, Call, served
    <3>4. result' \in [Candidates -> Modes \union {"raised"}]
      BY <1>1 DEF RunInv, Shape, Modes, Call, served
    <3>5. server' \in [Candidates -> Servers] /\ exec' \in [Candidates -> Execs]
      BY <1>1 DEF RunInv, Shape, Servers, Execs, Call, served
    <3>6. turn' \in [Candidates -> Turns] /\ heard' \in [Candidates -> Reports]
      BY <1>1 DEF RunInv, Shape, Turns, Reports, Call, served
    <3> QED
      BY <3>1, <3>2, <3>3, <3>4, <3>5, <3>6 DEF Shape
  <2>2. Others(c)
    BY <1>1 DEF RunInv, Shape, Others, Call, served
  <2>3. RunOf(c)'
    BY <1>1 DEF RunInv, Shape, RunOf, ModeFollowsPc, ResultAtEnd, HeardIsTurn,
                 ClosedIsSettled, Settled, Call, served
  <2> QED
    BY <2>1, <2>2, <2>3, OwnStep
<1>2. CASE SnapshotRead(c)
  <2>1. Shape'
    BY <1>2 DEF RunInv, Shape, Pcs, Modes, Turns, Reports, Servers, Execs, SnapshotRead
  <2>2. Others(c)
    BY <1>2 DEF RunInv, Shape, Others, SnapshotRead
  <2>3. RunOf(c)'
    BY <1>2 DEF RunInv, Shape, RunOf, ModeFollowsPc, ResultAtEnd, HeardIsTurn,
                 ClosedIsSettled, Settled, SnapshotRead
  <2> QED
    BY <2>1, <2>2, <2>3, OwnStep
<1>3. CASE Answered(c)
  <2>1. Shape'
    BY <1>3 DEF RunInv, Shape, Pcs, Modes, Turns, Reports, Servers, Execs, Answered, served
  <2>2. Others(c)
    BY <1>3 DEF RunInv, Shape, Others, Answered, served
  <2>3. RunOf(c)'
    BY <1>3 DEF RunInv, Shape, RunOf, ModeFollowsPc, ResultAtEnd, HeardIsTurn,
                 ClosedIsSettled, Settled, Answered, served
  <2> QED
    BY <2>1, <2>2, <2>3, OwnStep
<1>4. CASE Refused(c)
  <2>1. Shape'
    <3>1. pc' \in [Candidates -> Pcs]
      BY <1>4 DEF RunInv, Shape, Pcs, Refused
    <3>2. mode' \in [Candidates -> Modes]
      BY <1>4 DEF RunInv, Shape, Modes, Refused
    <3>3. failing' \in [Candidates -> BOOLEAN] /\ reader' \in [Candidates -> BOOLEAN]
      BY <1>4 DEF RunInv, Shape, Refused
    <3>4. result' \in [Candidates -> Modes \union {"raised"}]
      BY <1>4 DEF RunInv, Shape, Modes, Refused
    <3>5. server' \in [Candidates -> Servers] /\ exec' \in [Candidates -> Execs]
      BY <1>4 DEF RunInv, Shape, Servers, Execs, Refused
    <3>6. turn' \in [Candidates -> Turns] /\ heard' \in [Candidates -> Reports]
      BY <1>4 DEF RunInv, Shape, Turns, Reports, Refused
    <3> QED
      BY <3>1, <3>2, <3>3, <3>4, <3>5, <3>6 DEF Shape
  <2>2. Others(c)
    BY <1>4 DEF RunInv, Shape, Others, Refused
  <2>3. RunOf(c)'
    BY <1>4 DEF RunInv, Shape, RunOf, ModeFollowsPc, ResultAtEnd, HeardIsTurn,
                 ClosedIsSettled, Settled, Refused
  <2> QED
    BY <2>1, <2>2, <2>3, OwnStep
<1> QED
  BY <1>1, <1>2, <1>3, <1>4

\* The app server is waited for and shut down.
LEMMA CollectingKeeps ==
  ASSUME RunInv, NEW c \in Candidates,
         Collects(c) \/ Closes(c)
  PROVE  RunInv' /\ Others(c)
<1> USE DEF Goes, Asking
<1>1. CASE Collects(c)
  <2>1. Shape'
    BY <1>1 DEF RunInv, Shape, Pcs, Modes, Turns, Reports, Servers, Execs, Collects
  <2>2. Others(c)
    BY <1>1 DEF RunInv, Shape, Others, Collects
  <2>3. RunOf(c)'
    BY <1>1 DEF RunInv, Shape, RunOf, ModeFollowsPc, ResultAtEnd, HeardIsTurn,
                 ClosedIsSettled, Settled, Collects
  <2> QED
    BY <2>1, <2>2, <2>3, OwnStep
<1>2. CASE Closes(c)
  <2>1. Shape'
    BY <1>2 DEF RunInv, Shape, Pcs, Modes, Turns, Reports, Servers, Execs, Closes, served,
       Drained
  <2>2. Others(c)
    BY <1>2 DEF RunInv, Shape, Others, Closes, served, Drained
  <2>3. RunOf(c)'
    BY <1>2 DEF RunInv, Shape, RunOf, ModeFollowsPc, ResultAtEnd, HeardIsTurn,
                 ClosedIsSettled, Settled, Closes, served, Drained
  <2> QED
    BY <2>1, <2>2, <2>3, OwnStep
<1> QED
  BY <1>1, <1>2

\* codex exec is started, prompted and waited for.
LEMMA ExecKeeps ==
  ASSUME RunInv, NEW c \in Candidates,
         Launches(c) \/ Prompts(c) \/ Waits(c)
  PROVE  RunInv' /\ Others(c)
<1> USE DEF Goes, Asking
<1>1. CASE Launches(c)
  <2>1. Shape'
    BY <1>1 DEF RunInv, Shape, Pcs, Modes, Turns, Reports, Servers, Execs, Launches, served,
       Returns
  <2>2. Others(c)
    BY <1>1 DEF RunInv, Shape, Others, Launches, served, Returns
  <2>3. RunOf(c)'
    BY <1>1 DEF RunInv, Shape, RunOf, ModeFollowsPc, ResultAtEnd, HeardIsTurn,
                 ClosedIsSettled, Settled, Launches, served, Returns
  <2> QED
    BY <2>1, <2>2, <2>3, OwnStep
<1>2. CASE Prompts(c)
  <2>1. Shape'
    BY <1>2 DEF RunInv, Shape, Pcs, Modes, Turns, Reports, Servers, Execs, Prompts, served
  <2>2. Others(c)
    BY <1>2 DEF RunInv, Shape, Others, Prompts, served
  <2>3. RunOf(c)'
    BY <1>2 DEF RunInv, Shape, RunOf, ModeFollowsPc, ResultAtEnd, HeardIsTurn,
                 ClosedIsSettled, Settled, Prompts, served
  <2> QED
    BY <2>1, <2>2, <2>3, OwnStep
<1>3. CASE Waits(c)
  <2>1. Shape'
    BY <1>3 DEF RunInv, Shape, Pcs, Modes, Turns, Reports, Servers, Execs, Waits, served
  <2>2. Others(c)
    BY <1>3 DEF RunInv, Shape, Others, Waits, served
  <2>3. RunOf(c)'
    BY <1>3 DEF RunInv, Shape, RunOf, ModeFollowsPc, ResultAtEnd, HeardIsTurn,
                 ClosedIsSettled, Settled, Waits, served
  <2> QED
    BY <2>1, <2>2, <2>3, OwnStep
<1> QED
  BY <1>1, <1>2, <1>3

\* The record is written, and taken away.
LEMMA RecordKeeps ==
  ASSUME RunInv, NEW c \in Candidates,
         \/ RegisterReads(c) \/ RegisterWrites(c) \/ RegisterRaises(c)
         \/ UnregisterReads(c) \/ UnregisterWrites(c) \/ UnregisterRaises(c)
  PROVE  RunInv' /\ Others(c)
<1> USE DEF Goes, Returns, Leaves, Asking
<1>1. CASE RegisterReads(c)
  <2>1. Shape'
    BY <1>1 DEF RunInv, Shape, Pcs, Modes, Turns, Reports, Servers, Execs, RegisterReads, served
  <2>2. Others(c)
    BY <1>1 DEF RunInv, Shape, Others, RegisterReads, served
  <2>3. RunOf(c)'
    BY <1>1 DEF RunInv, Shape, RunOf, ModeFollowsPc, ResultAtEnd, HeardIsTurn,
                 ClosedIsSettled, Settled, RegisterReads, served
  <2> QED
    BY <2>1, <2>2, <2>3, OwnStep
<1>2. CASE RegisterWrites(c)
  <2>1. Shape'
    BY <1>2 DEF RunInv, Shape, Pcs, Modes, Turns, Reports, Servers, Execs, RegisterWrites,
       OnceRecorded, served
  <2>2. Others(c)
    BY <1>2 DEF RunInv, Shape, Others, RegisterWrites, served
  <2>3. RunOf(c)'
    BY <1>2 DEF RunInv, Shape, RunOf, ModeFollowsPc, ResultAtEnd, HeardIsTurn,
                 ClosedIsSettled, Settled, RegisterWrites, OnceRecorded, served
  <2> QED
    BY <2>1, <2>2, <2>3, OwnStep
<1>3. CASE RegisterRaises(c)
  <2>1. Shape'
    <3>1. pc' \in [Candidates -> Pcs]
      BY <1>3 DEF RunInv, Shape, Pcs, RegisterRaises, served
    <3>2. mode' \in [Candidates -> Modes]
      BY <1>3 DEF RunInv, Shape, Modes, RegisterRaises, served
    <3>3. failing' \in [Candidates -> BOOLEAN] /\ reader' \in [Candidates -> BOOLEAN]
      BY <1>3 DEF RunInv, Shape, RegisterRaises, served
    <3>4. result' \in [Candidates -> Modes \union {"raised"}]
      BY <1>3 DEF RunInv, Shape, Modes, RegisterRaises, served
    <3>5. server' \in [Candidates -> Servers] /\ exec' \in [Candidates -> Execs]
      BY <1>3 DEF RunInv, Shape, Servers, Execs, RegisterRaises, served
    <3>6. turn' \in [Candidates -> Turns] /\ heard' \in [Candidates -> Reports]
      BY <1>3 DEF RunInv, Shape, Turns, Reports, RegisterRaises, served
    <3> QED
      BY <3>1, <3>2, <3>3, <3>4, <3>5, <3>6 DEF Shape
  <2>2. Others(c)
    BY <1>3 DEF RunInv, Shape, Others, RegisterRaises, served
  <2>3. RunOf(c)'
    BY <1>3 DEF RunInv, Shape, RunOf, ModeFollowsPc, ResultAtEnd, HeardIsTurn,
                 ClosedIsSettled, Settled, RegisterRaises, served
  <2> QED
    BY <2>1, <2>2, <2>3, OwnStep
<1>4. CASE UnregisterReads(c)
  <2>1. Shape'
    <3>1. pc' \in [Candidates -> Pcs]
      BY <1>4 DEF RunInv, Shape, Pcs, UnregisterReads, served
    <3>2. mode' \in [Candidates -> Modes]
      BY <1>4 DEF RunInv, Shape, Modes, UnregisterReads, served
    <3>3. failing' \in [Candidates -> BOOLEAN] /\ reader' \in [Candidates -> BOOLEAN]
      BY <1>4 DEF RunInv, Shape, UnregisterReads, served
    <3>4. result' \in [Candidates -> Modes \union {"raised"}]
      BY <1>4 DEF RunInv, Shape, Modes, UnregisterReads, served
    <3>5. server' \in [Candidates -> Servers] /\ exec' \in [Candidates -> Execs]
      BY <1>4 DEF RunInv, Shape, Servers, Execs, UnregisterReads, served
    <3>6. turn' \in [Candidates -> Turns] /\ heard' \in [Candidates -> Reports]
      BY <1>4 DEF RunInv, Shape, Turns, Reports, UnregisterReads, served
    <3> QED
      BY <3>1, <3>2, <3>3, <3>4, <3>5, <3>6 DEF Shape
  <2>2. Others(c)
    BY <1>4 DEF RunInv, Shape, Others, UnregisterReads, served
  <2>3. RunOf(c)'
    BY <1>4 DEF RunInv, Shape, RunOf, ModeFollowsPc, ResultAtEnd, HeardIsTurn,
                 ClosedIsSettled, Settled, UnregisterReads, served
  <2> QED
    BY <2>1, <2>2, <2>3, OwnStep
<1>5. CASE UnregisterWrites(c)
  <2>1. Shape'
    BY <1>5 DEF RunInv, Shape, Pcs, Modes, Turns, Reports, Servers, Execs, UnregisterWrites,
       served
  <2>2. Others(c)
    BY <1>5 DEF RunInv, Shape, Others, UnregisterWrites, served
  <2>3. RunOf(c)'
    BY <1>5 DEF RunInv, Shape, RunOf, ModeFollowsPc, ResultAtEnd, HeardIsTurn,
                 ClosedIsSettled, Settled, UnregisterWrites, served
  <2> QED
    BY <2>1, <2>2, <2>3, OwnStep
<1>6. CASE UnregisterRaises(c)
  <2>1. Shape'
    BY <1>6 DEF RunInv, Shape, Pcs, Modes, Turns, Reports, Servers, Execs, UnregisterRaises,
       served
  <2>2. Others(c)
    BY <1>6 DEF RunInv, Shape, Others, UnregisterRaises, served
  <2>3. RunOf(c)'
    BY <1>6 DEF RunInv, Shape, RunOf, ModeFollowsPc, ResultAtEnd, HeardIsTurn,
                 ClosedIsSettled, Settled, UnregisterRaises, served
  <2> QED
    BY <2>1, <2>2, <2>3, OwnStep
<1> QED
  BY <1>1, <1>2, <1>3, <1>4, <1>5, <1>6

\* What the app server does, what is read of it, and its end.
LEMMA ServerKeeps ==
  ASSUME RunInv, NEW c \in Candidates,
         \/ TurnBegins(c) \/ TurnEnds(c) \/ Hears(c) \/ ReaderBreaks(c)
         \/ ServerDies(c) \/ SteerBreaks(c) \/ ServerIsLeft(c)
  PROVE  RunInv' /\ Others(c)
<1> USE DEF Goes, Boots, Raises, Asking
<1>1. CASE TurnBegins(c)
  <2>1. Shape'
    BY <1>1 DEF RunInv, Shape, Pcs, Modes, Turns, Reports, Servers, Execs, TurnBegins, thread
  <2>2. Others(c)
    BY <1>1 DEF RunInv, Shape, Others, TurnBegins, thread
  <2>3. RunOf(c)'
    BY <1>1 DEF RunInv, Shape, RunOf, ModeFollowsPc, ResultAtEnd, HeardIsTurn,
                 ClosedIsSettled, Settled, TurnBegins, thread
  <2> QED
    BY <2>1, <2>2, <2>3, OwnStep
<1>2. CASE TurnEnds(c)
  <2>1. Shape'
    BY <1>2 DEF RunInv, Shape, Pcs, Modes, Turns, Reports, Servers, Execs, TurnEnds, thread
  <2>2. Others(c)
    BY <1>2 DEF RunInv, Shape, Others, TurnEnds, thread
  <2>3. RunOf(c)'
    BY <1>2 DEF RunInv, Shape, RunOf, ModeFollowsPc, ResultAtEnd, HeardIsTurn,
                 ClosedIsSettled, Settled, TurnEnds, thread
  <2> QED
    BY <2>1, <2>2, <2>3, OwnStep
<1>3. CASE Hears(c)
  <2>1. Shape'
    BY <1>3 DEF RunInv, Shape, Pcs, Modes, Turns, Reports, Servers, Execs, Hears, thread
  <2>2. Others(c)
    BY <1>3 DEF RunInv, Shape, Others, Hears, thread
  <2>3. RunOf(c)'
    BY <1>3 DEF RunInv, Shape, RunOf, ModeFollowsPc, ResultAtEnd, HeardIsTurn,
                 ClosedIsSettled, Settled, Hears, thread
  <2> QED
    BY <2>1, <2>2, <2>3, OwnStep
<1>4. CASE ReaderBreaks(c)
  <2>1. Shape'
    BY <1>4 DEF RunInv, Shape, Pcs, Modes, Turns, Reports, Servers, Execs, ReaderBreaks, thread
  <2>2. Others(c)
    BY <1>4 DEF RunInv, Shape, Others, ReaderBreaks, thread
  <2>3. RunOf(c)'
    BY <1>4 DEF RunInv, Shape, RunOf, ModeFollowsPc, ResultAtEnd, HeardIsTurn,
                 ClosedIsSettled, Settled, ReaderBreaks, thread
  <2> QED
    BY <2>1, <2>2, <2>3, OwnStep
<1>5. CASE ServerDies(c)
  <2>1. Shape'
    <3>1. pc' \in [Candidates -> Pcs]
      BY <1>5 DEF RunInv, Shape, Pcs, ServerDies
    <3>2. mode' \in [Candidates -> Modes]
      BY <1>5 DEF RunInv, Shape, Modes, ServerDies
    <3>3. failing' \in [Candidates -> BOOLEAN] /\ reader' \in [Candidates -> BOOLEAN]
      BY <1>5 DEF RunInv, Shape, ServerDies
    <3>4. result' \in [Candidates -> Modes \union {"raised"}]
      BY <1>5 DEF RunInv, Shape, Modes, ServerDies
    <3>5. server' \in [Candidates -> Servers] /\ exec' \in [Candidates -> Execs]
      BY <1>5 DEF RunInv, Shape, Servers, Execs, ServerDies
    <3>6. turn' \in [Candidates -> Turns] /\ heard' \in [Candidates -> Reports]
      BY <1>5 DEF RunInv, Shape, Turns, Reports, ServerDies
    <3> QED
      BY <3>1, <3>2, <3>3, <3>4, <3>5, <3>6 DEF Shape
  <2>2. Others(c)
    BY <1>5 DEF RunInv, Shape, Others, ServerDies
  <2>3. RunOf(c)'
    BY <1>5 DEF RunInv, Shape, RunOf, ModeFollowsPc, ResultAtEnd, HeardIsTurn,
                 ClosedIsSettled, Settled, ServerDies
  <2> QED
    BY <2>1, <2>2, <2>3, OwnStep
<1>6. CASE SteerBreaks(c)
  <2>1. Shape'
    BY <1>6 DEF RunInv, Shape, Pcs, Modes, Turns, Reports, Servers, Execs, SteerBreaks
  <2>2. Others(c)
    BY <1>6 DEF RunInv, Shape, Others, SteerBreaks
  <2>3. RunOf(c)'
    BY <1>6 DEF RunInv, Shape, RunOf, ModeFollowsPc, ResultAtEnd, HeardIsTurn,
                 ClosedIsSettled, Settled, SteerBreaks
  <2> QED
    BY <2>1, <2>2, <2>3, OwnStep
<1>7. CASE ServerIsLeft(c)
  <2>1. Shape'
    BY <1>7 DEF RunInv, Shape, Pcs, Modes, Turns, Reports, Servers, Execs, ServerIsLeft, thread
  <2>2. Others(c)
    BY <1>7 DEF RunInv, Shape, Others, ServerIsLeft, thread
  <2>3. RunOf(c)'
    BY <1>7 DEF RunInv, Shape, RunOf, ModeFollowsPc, ResultAtEnd, HeardIsTurn,
                 ClosedIsSettled, Settled, ServerIsLeft, thread
  <2> QED
    BY <2>1, <2>2, <2>3, OwnStep
<1> QED
  BY <1>1, <1>2, <1>3, <1>4, <1>5, <1>6, <1>7

\* The end of codex exec.
LEMMA ExecEndKeeps ==
  ASSUME RunInv, NEW c \in Candidates,
         ExecEnds(c)
  PROVE  RunInv' /\ Others(c)
<1> USE DEF Goes, Asking
<1>1. CASE ExecEnds(c)
  <2>1. Shape'
    BY <1>1 DEF RunInv, Shape, Pcs, Modes, Turns, Reports, Servers, Execs, ExecEnds, thread,
       served
  <2>2. Others(c)
    BY <1>1 DEF RunInv, Shape, Others, ExecEnds, thread, served
  <2>3. RunOf(c)'
    BY <1>1 DEF RunInv, Shape, RunOf, ModeFollowsPc, ResultAtEnd, HeardIsTurn,
                 ClosedIsSettled, Settled, ExecEnds, thread, served
  <2> QED
    BY <2>1, <2>2, <2>3, OwnStep
<1> QED
  BY <1>1

\* The death of the bot ends its threads, and whatever they had not yet returned;
\* an abort ends processes; the check reads and writes only the file.
LEMMA BotKeeps ==
  ASSUME RunInv,
         Crash \/ AbortReads \/ AbortSignals \/ AbortKills \/ Restart \/ CheckReads
         \/ CheckEnds
  PROVE  RunInv'
<1> USE DEF Asking
<1>1. CASE Crash
  <2>1. Shape'
    BY <1>1 DEF RunInv, Shape, Pcs, Modes, Turns, Reports, Servers, Execs, Crash, BotDies
  <2>2. \A c \in Candidates : RunOf(c)'
    BY <1>1 DEF RunInv, Shape, RunOf, ModeFollowsPc, ResultAtEnd, HeardIsTurn,
             ClosedIsSettled, Settled, Crash, BotDies
  <2> QED
    BY <2>1, <2>2 DEF RunInv
<1>2. CASE AbortReads
  <2>1. Shape'
    BY <1>2 DEF RunInv, Shape, Pcs, Modes, Turns, Reports, Servers, Execs, AbortReads, thread,
       served, Reads
  <2>2. \A c \in Candidates : RunOf(c)'
    BY <1>2 DEF RunInv, Shape, RunOf, ModeFollowsPc, ResultAtEnd, HeardIsTurn,
             ClosedIsSettled, Settled, AbortReads, thread, served, Reads
  <2> QED
    BY <2>1, <2>2 DEF RunInv
<1>3. CASE AbortSignals
  <2>1. Shape'
    BY <1>3 DEF RunInv, Shape, Pcs, Modes, Turns, Reports, Servers, Execs, AbortSignals,
       thread, served
  <2>2. \A c \in Candidates : RunOf(c)'
    BY <1>3 DEF RunInv, Shape, RunOf, ModeFollowsPc, ResultAtEnd, HeardIsTurn,
             ClosedIsSettled, Settled, AbortSignals, Alive, thread, served
  <2> QED
    BY <2>1, <2>2 DEF RunInv
<1>4. CASE AbortKills
  <2>1. Shape'
    BY <1>4 DEF RunInv, Shape, Pcs, Modes, Turns, Reports, Servers, Execs, AbortKills, BotDies
  <2>2. \A c \in Candidates : RunOf(c)'
    BY <1>4 DEF RunInv, Shape, RunOf, ModeFollowsPc, ResultAtEnd, HeardIsTurn,
             ClosedIsSettled, Settled, AbortKills, BotDies
  <2> QED
    BY <2>1, <2>2 DEF RunInv
<1>5. CASE Restart
  <2>1. Shape'
    BY <1>5 DEF RunInv, Shape, Pcs, Modes, Turns, Reports, Servers, Execs, Restart, thread
  <2>2. \A c \in Candidates : RunOf(c)'
    BY <1>5 DEF RunInv, Shape, RunOf, ModeFollowsPc, ResultAtEnd, HeardIsTurn,
             ClosedIsSettled, Settled, Restart, thread
  <2> QED
    BY <2>1, <2>2 DEF RunInv
<1>6. CASE CheckReads
  <2>1. Shape'
    BY <1>6 DEF RunInv, Shape, Pcs, Modes, Turns, Reports, Servers, Execs, CheckReads, thread,
       served, Reads
  <2>2. \A c \in Candidates : RunOf(c)'
    BY <1>6 DEF RunInv, Shape, RunOf, ModeFollowsPc, ResultAtEnd, HeardIsTurn,
             ClosedIsSettled, Settled, CheckReads, thread, served, Reads
  <2> QED
    BY <2>1, <2>2 DEF RunInv
<1>7. CASE CheckEnds
  <2>1. Shape'
    BY <1>7 DEF RunInv, Shape, Pcs, Modes, Turns, Reports, Servers, Execs, CheckEnds, thread,
       served
  <2>2. \A c \in Candidates : RunOf(c)'
    BY <1>7 DEF RunInv, Shape, RunOf, ModeFollowsPc, ResultAtEnd, HeardIsTurn,
             ClosedIsSettled, Settled, CheckEnds, thread, served
  <2> QED
    BY <2>1, <2>2 DEF RunInv
<1> QED
  BY <1>1, <1>2, <1>3, <1>4, <1>5, <1>6, <1>7

-----------------------------------------------------------------------------
(* The theorems.                                                           *)

\* Every step keeps the invariant.
LEMMA StepInvariant == RunInv /\ [Next]_vars => RunInv'
<1> SUFFICES ASSUME RunInv, [Next]_vars PROVE RunInv'
  OBVIOUS
<1>1. CASE UNCHANGED vars
  BY <1>1 DEF vars, thread, served, RunInv, Shape, RunOf, ModeFollowsPc, ResultAtEnd,
              HeardIsTurn, ClosedIsSettled, Settled
<1>2. ASSUME NEW c \in Candidates, Proceeds(c) PROVE RunInv'
  BY <1>2, AskingKeeps, CollectingKeeps, ExecKeeps, RecordKeeps DEF Proceeds
<1>3. ASSUME NEW c \in Candidates, Works(c) \/ Fails(c) \/ ServerIsLeft(c) PROVE RunInv'
  BY <1>3, AskingKeeps, RecordKeeps, ServerKeeps, ExecEndKeeps DEF Works, Fails
<1> QED
  BY <1>1, <1>2, <1>3, BotKeeps DEF Next, Check

\* Servers, Execs, turns and results go together in every reachable state.
THEOREM RunInvariantHolds == Spec => []RunInv
<1>1. Init => RunInv
  BY InitInvariant
<1>2. RunInv /\ [Next]_vars => RunInv'
  BY StepInvariant
<1> QED
  BY <1>1, <1>2, PTL DEF Spec

\* Whatever ended a call of run, the agent it reports on works no more, so that the
\* pipeline tests and commits what will not change.
THEOREM QuietHolds == Spec => []QuietAfterRun
<1>1. RunInv => QuietAfterRun
  BY DEF RunInv, RunOf, ModeFollowsPc, ResultAtEnd, ClosedIsSettled, Settled,
         QuietAfterRun
<1> QED
  BY <1>1, RunInvariantHolds, PTL

\* The return code of an app server is that of its turn, also if the process ended
\* before the report of the turn was read.
THEOREM CompletionHolds == Spec => []CompletionCounts
<1>1. RunInv => CompletionCounts
  BY DEF RunInv, RunOf, ClosedIsSettled, Settled, CompletionCounts
<1> QED
  BY <1>1, RunInvariantHolds, PTL

\* What the file says of candidate c, when it speaks of the process c drives now.
RecordOf(c) == [who |-> c, own |-> mode[c] = "exec"]
OneEach(S) == \A r, s \in S : r.who = s.who => r = s

\* The types of the file, and of all that is not a candidate's.
Filed ==
  /\ records \subseteq Record /\ OneEach(records)
  /\ copy \in [Callers -> SUBSET Record] /\ \A p \in Callers : OneEach(copy[p])
Living ==
  /\ appServer \in BOOLEAN /\ rollover \in BOOLEAN
  /\ abort \in {"idle", "signalling", "blocked"} /\ check \in {"idle", "testing"}
  /\ bot \in BOOLEAN /\ restarted \in BOOLEAN /\ freed \in BOOLEAN /\ stale \in BOOLEAN
  /\ group \in {"first", "other"}
  /\ deaths \in 0..MaxDeaths /\ faults \in 0..MaxFaults

\* A dead bot has no threads, and one that is restarted starts none.
ThreadsDie ==
  /\ ~bot \/ restarted => \A c \in Candidates : pc[c] \in {"done", "dead"}
  /\ freed => restarted

\* After a restart the check is alone with the file.
CheckIsCurrent == restarted /\ check = "testing" => copy["check"] = records

\* The command and the check die with the bot, and nobody aborts what a bot that
\* has died left behind.
CallsDie ==
  /\ abort = "signalling" => bot /\ ~restarted
  /\ check = "testing" => bot

\* A process that works is on file whoever drives it, also when nobody does any
\* more - unless the file was overwritten.
AtWork(c) == exec[c] = "working" \/ (bot /\ Driven(c))
WorkIsOnFile == ~stale => \A c \in Candidates : AtWork(c) => RecordOf(c) \in records

FileInv ==
  /\ RunInv /\ Filed /\ Living /\ ThreadsDie /\ CallsDie /\ CheckIsCurrent
  /\ WorkIsOnFile /\ FreedIsQuiet

-----------------------------------------------------------------------------
(* The file.                                                               *)

\* The first file is empty and nobody works.
LEMMA FileInitially == Init => FileInv
<1> SUFFICES ASSUME Init PROVE FileInv
  OBVIOUS
<1>1. RunInv
  BY InitInvariant
<1>2. Filed
  BY DEF Init, Filed, OneEach
<1>3. Living
  <2>1. AppServers \subseteq BOOLEAN /\ Rollovers \subseteq BOOLEAN
        /\ MaxDeaths \in 0..MaxDeaths /\ MaxFaults \in 0..MaxFaults
    BY AgentRunAssumption
  <2> QED
    BY <2>1 DEF Init, Living
<1>4. ThreadsDie /\ CallsDie /\ CheckIsCurrent /\ FreedIsQuiet
  BY DEF Init, ThreadsDie, CallsDie, CheckIsCurrent, FreedIsQuiet
<1>5. WorkIsOnFile
  BY DEF Init, WorkIsOnFile, AtWork, Driven
<1> QED
  BY <1>1, <1>2, <1>3, <1>4, <1>5 DEF FileInv

\* A copy that is read is what the file holds.
LEMMA ReadsKeep ==
  ASSUME Filed, NEW p \in Callers, Reads(p), UNCHANGED records
  PROVE  Filed'
BY DEF Filed, Reads

\* What is written is the copy, with the record of one candidate added or taken
\* away or the dead ones left out.
LEMMA WritesKeep ==
  ASSUME Filed, NEW p \in Callers, NEW new, Writes(p, new), new \subseteq Record, OneEach(new)
  PROVE  Filed'
<1>1. records' = new /\ copy' = [copy EXCEPT ![p] = {}]
  BY DEF Writes
<1>2. OneEach({})
  BY DEF OneEach
<1>3. copy' \in [Callers -> SUBSET Record]
  BY <1>1 DEF Filed
<1>4. \A q \in Callers : copy'[q] = {} \/ copy'[q] = copy[q]
  BY <1>1 DEF Filed
<1> QED
  BY <1>1, <1>2, <1>3, <1>4 DEF Filed

\* Whoever writes without making the file stale has read what it holds.
LEMMA FreshWrite ==
  ASSUME NEW p \in Callers, NEW new, Writes(p, new), Living
  PROVE  /\ stale' \in BOOLEAN /\ records' = new
         /\ ~stale' => ~stale /\ copy[p] = records
BY DEF Writes, Living

\* A step that leaves the file and the bot: nobody begins to work in it.
LEMMA LeavesFile ==
  ASSUME FileInv, RunInv', UNCHANGED <<records, stale>>, UNCHANGED bot, UNCHANGED restarted,
  UNCHANGED freed,
         CheckIsCurrent',
         \A c \in Candidates : ~bot \/ restarted => pc'[c] \in {"done", "dead"},
         \A c \in Candidates : AtWork(c)' => AtWork(c) /\ mode'[c] = mode[c],
         \A c \in Candidates : exec'[c] = "working" /\ exec[c] # "working" => ~restarted
  PROVE  ThreadsDie' /\ CheckIsCurrent' /\ WorkIsOnFile' /\ FreedIsQuiet'
<1>1. ThreadsDie'
  BY DEF FileInv, ThreadsDie
<1>2. WorkIsOnFile'
  BY DEF FileInv, WorkIsOnFile, RecordOf
<1>3. FreedIsQuiet'
  BY DEF FileInv, FreedIsQuiet, ThreadsDie
<1> QED
  BY <1>1, <1>2, <1>3

\* The fields of the thread of c, of its server and its exec, in a step of c.
LEMMA OwnWork ==
  ASSUME FileInv, NEW c \in Candidates, Others(c), UNCHANGED <<records, stale, bot, restarted,
  freed>>,
         RunInv', UNCHANGED check \/ ~restarted, UNCHANGED copy \/ ~restarted,
         ~bot \/ restarted => pc'[c] \in {"done", "dead"},
         AtWork(c)' => AtWork(c) /\ mode'[c] = mode[c],
         exec'[c] = "working" /\ exec[c] # "working" => ~restarted
  PROVE  ThreadsDie' /\ CheckIsCurrent' /\ WorkIsOnFile' /\ FreedIsQuiet'
<1>1. \A d \in Candidates \ {c} :
        /\ pc'[d] = pc[d] /\ mode'[d] = mode[d] /\ exec'[d] = exec[d]
        /\ (AtWork(d)' <=> AtWork(d))
  BY DEF Others, AtWork, Driven
<1>2. \A d \in Candidates : ~bot \/ restarted => pc'[d] \in {"done", "dead"}
  BY <1>1 DEF FileInv, ThreadsDie
<1>3. \A d \in Candidates : AtWork(d)' => AtWork(d) /\ mode'[d] = mode[d]
  BY <1>1
<1>4. \A d \in Candidates : exec'[d] = "working" /\ exec[d] # "working" => ~restarted
  BY <1>1
<1>5. CheckIsCurrent'
  BY DEF FileInv, CheckIsCurrent
<1> QED
  BY <1>2, <1>3, <1>4, <1>5, LeavesFile

\* The call, the app server and the exec: their steps leave the file alone.
LEMMA WorkSteps ==
  ASSUME FileInv, NEW c \in Candidates,
         \/ Call(c) \/ SnapshotRead(c) \/ Answered(c) \/ Refused(c) \/ Collects(c) \/ Closes(c)
         \/ Launches(c) \/ Prompts(c) \/ Waits(c) \/ TurnBegins(c) \/ TurnEnds(c) \/ Hears(c)
         \/ ReaderBreaks(c) \/ ServerDies(c) \/ SteerBreaks(c) \/ ServerIsLeft(c) \/ ExecEnds(c)
  PROVE  FileInv'
<1>1. RunInv' /\ Others(c)
  BY AskingKeeps, CollectingKeeps, ExecKeeps, ServerKeeps, ExecEndKeeps DEF FileInv
<1>2. UNCHANGED file /\ UNCHANGED life /\ UNCHANGED choice
  BY DEF Call, SnapshotRead, Answered, Refused, Collects, Closes, Launches, Prompts, Waits,
     TurnBegins, TurnEnds, Hears, ReaderBreaks, ServerDies, SteerBreaks, ServerIsLeft, ExecEnds
<1>3. Shape /\ RunOf(c) /\ Shape' /\ RunOf(c)'
  BY <1>1 DEF FileInv, RunInv
<1>4. ~bot \/ restarted => pc[c] \in {"done", "dead"}
  BY DEF FileInv, ThreadsDie
<1>5. ~bot \/ restarted => pc'[c] \in {"done", "dead"}
  <2>1. pc'[c] = pc[c] \/ pc[c] \notin {"done", "dead"}
    BY <1>3 DEF Call, SnapshotRead, Answered, Refused, Collects, Closes, Launches, Prompts,
       Waits,
     TurnBegins, TurnEnds, Hears, ReaderBreaks, ServerDies, SteerBreaks, ServerIsLeft, ExecEnds,
     Listening, Asking, thread
  <2> QED
    BY <1>4, <2>1
<1>6. exec'[c] = "working" /\ exec[c] # "working" => ~restarted
  <2>1. exec'[c] = exec[c] \/ pc[c] \notin {"done", "dead"} \/ exec'[c] = "gone"
    BY <1>3 DEF Shape, Call, SnapshotRead, Answered, Refused, Collects, Closes, Launches,
       Prompts, Waits,
     TurnBegins, TurnEnds, Hears, ReaderBreaks, ServerDies, SteerBreaks, ServerIsLeft, ExecEnds
  <2> QED
    BY <1>4, <2>1
<1>7. AtWork(c)' => AtWork(c) /\ mode'[c] = mode[c]
  <2>1. bot' = bot
    BY <1>2 DEF life
  <2>2. CASE Call(c) \/ SnapshotRead(c)
    BY <1>3, <2>1, <2>2 DEF AtWork, Driven, Shape, RunOf, ModeFollowsPc, Call, SnapshotRead,
       Boots, Goes, Listening, Asking
  <2>3. CASE Answered(c)
    BY <1>3, <2>1, <2>3 DEF AtWork, Driven, Shape, RunOf, ModeFollowsPc, Answered, Goes,
       Listening, Asking, served
  <2>4. CASE Refused(c) \/ ServerDies(c) \/ SteerBreaks(c)
    BY <1>3, <2>1, <2>4 DEF AtWork, Driven, Shape, RunOf, ModeFollowsPc, Refused, ServerDies,
       SteerBreaks, Raises, Boots, Goes,
       Listening, Asking
  <2>5. CASE Collects(c) \/ Closes(c) \/ Launches(c) \/ Waits(c)
    BY <1>3, <2>1, <2>5 DEF AtWork, Driven, Shape, RunOf, ModeFollowsPc, Collects, Closes,
       Launches, Waits, Returns, Goes, served
  <2>6. CASE Prompts(c)
    BY <1>3, <2>1, <2>6 DEF AtWork, Driven, Shape, RunOf, ModeFollowsPc, Prompts, Goes, served
  <2>7. CASE \/ TurnBegins(c) \/ TurnEnds(c) \/ Hears(c)
             \/ ReaderBreaks(c) \/ ServerIsLeft(c) \/ ExecEnds(c)
    BY <1>3, <2>1, <2>7 DEF AtWork, Driven, Shape, TurnBegins, TurnEnds, Hears, ReaderBreaks,
       ServerIsLeft, ExecEnds,
       thread, served
  <2> QED
    BY <2>2, <2>3, <2>4, <2>5, <2>6, <2>7
<1>8. Filed' /\ UNCHANGED <<records, stale, bot, restarted, freed, check, copy>>
  BY <1>2 DEF FileInv, Filed, file, life
<1>9. ThreadsDie' /\ CheckIsCurrent' /\ WorkIsOnFile' /\ FreedIsQuiet'
  BY <1>1, <1>5, <1>6, <1>7, <1>8, OwnWork
<1>10. Living'
  <2>1. faults' = faults \/ (faults > 0 /\ faults' = faults - 1)
    BY DEF Call, SnapshotRead, Answered, Refused, Collects, Closes, Launches, Prompts, Waits,
     TurnBegins, TurnEnds, Hears, ReaderBreaks, ServerDies, SteerBreaks, ServerIsLeft, ExecEnds
  <2>2. faults' \in 0..MaxFaults
    BY <2>1, AgentRunAssumption DEF FileInv, Living
  <2> QED
    BY <1>2, <2>2 DEF FileInv, Living, life, choice, file
<1>11. CallsDie'
  BY <1>2 DEF FileInv, CallsDie, life
<1> QED
  BY <1>1, <1>8, <1>9, <1>10, <1>11 DEF FileInv

\* A thread that keeps its record of the process lives, and the bot has not come
\* back from its death: it is enough that what it does keeps the file true of
\* the processes at work.
LEMMA RecordOwn ==
  ASSUME FileInv, NEW c \in Candidates, Others(c), RunInv', bot, pc[c] \notin {"done", "dead"},
         UNCHANGED <<choice, exec, life, faults>>, Filed', stale' \in BOOLEAN,
         WorkIsOnFile'
  PROVE  FileInv'
<1>1. ~restarted /\ ~freed
  BY DEF FileInv, ThreadsDie
<1>2. Living'
  BY DEF FileInv, Living, choice, life
<1>3. ThreadsDie' /\ CallsDie' /\ CheckIsCurrent' /\ FreedIsQuiet'
  BY <1>1 DEF ThreadsDie, CallsDie, CheckIsCurrent, FreedIsQuiet, life
<1> QED
  BY <1>2, <1>3 DEF FileInv

\* The reads of register and unregister, and their failures, end or begin no work.
LEMMA RecordReads ==
  ASSUME FileInv, NEW c \in Candidates,
         RegisterReads(c) \/ RegisterRaises(c) \/ UnregisterReads(c) \/ UnregisterRaises(c)
  PROVE  FileInv'
<1>1. RunInv' /\ Others(c)
  BY RecordKeeps DEF FileInv
<1>2. /\ bot /\ pc[c] \in {"register", "unregister"}
      /\ UNCHANGED <<choice, exec, life, faults, records, stale, server>>
      /\ Reads(c) \/ UNCHANGED copy
  BY DEF RegisterReads, RegisterRaises, UnregisterReads, UnregisterRaises, served, file
<1>3. Filed'
  <2>1. CASE Reads(c)
    <3>1. c \in Callers
      BY DEF Callers
    <3> QED
      BY <1>2, <2>1, <3>1, ReadsKeep DEF FileInv
  <2>2. CASE UNCHANGED copy
    BY <1>2, <2>2 DEF FileInv, Filed
  <2> QED
    BY <1>2, <2>1, <2>2
<1>4. ~AtWork(c)'
  <2>1. Shape /\ RunOf(c)
    BY DEF FileInv, RunInv
  <2>2. exec'[c] # "working"
    BY <1>2, <2>1 DEF RunOf, ModeFollowsPc
  <2>3. pc'[c] \in {"recording", "unrecording", "unregister", "launch", "done"}
    BY <2>1 DEF Shape, RegisterReads, RegisterRaises, UnregisterReads, UnregisterRaises,
                Leaves, Returns, Goes
  <2> QED
    BY <2>2, <2>3 DEF AtWork, Driven
<1>5. \A d \in Candidates \ {c} : (AtWork(d)' <=> AtWork(d)) /\ RecordOf(d)' = RecordOf(d)
  BY <1>1, <1>2 DEF Others, AtWork, Driven, RecordOf, life
<1>6. WorkIsOnFile'
  BY <1>2, <1>4, <1>5 DEF FileInv, WorkIsOnFile
<1>7. stale' \in BOOLEAN
  BY <1>2 DEF FileInv, Living
<1> QED
  BY <1>1, <1>2, <1>3, <1>6, <1>7, RecordOwn

\* register adds the record of its candidate and keeps those of the others.
LEMMA RegisterWritesKeeps ==
  ASSUME FileInv, NEW c \in Candidates, RegisterWrites(c)
  PROVE  FileInv'
<1> DEFINE new == {r \in copy[c] : r.who # c} \union {RecordOf(c)}
<1>1. RunInv' /\ Others(c)
  BY RecordKeeps DEF FileInv
<1>2. /\ bot /\ pc[c] = "recording" /\ c \in Callers
      /\ UNCHANGED <<choice, exec, life, faults, server, mode>>
      /\ Writes(c, new)
  BY DEF RegisterWrites, served, RecordOf, Callers
<1>3. copy[c] \subseteq Record /\ OneEach(copy[c])
  BY <1>2 DEF FileInv, Filed
<1>4. RecordOf(c) \in Record /\ RecordOf(c).who = c
  BY DEF RecordOf, Record
<1>5. new \subseteq Record /\ OneEach(new)
  BY <1>3, <1>4 DEF OneEach
<1>6. Filed'
  BY <1>2, <1>5, WritesKeep DEF FileInv
<1>7. stale' \in BOOLEAN /\ records' = new /\ (~stale' => ~stale /\ copy[c] = records)
  BY <1>2, FreshWrite DEF FileInv
<1>8. \A d \in Candidates \ {c} : (AtWork(d)' <=> AtWork(d)) /\ RecordOf(d)' = RecordOf(d)
  BY <1>1, <1>2 DEF Others, AtWork, Driven, RecordOf, life
<1>9. WorkIsOnFile'
  <2> SUFFICES ASSUME ~stale', NEW d \in Candidates, AtWork(d)'
               PROVE  RecordOf(d)' \in records'
    BY DEF WorkIsOnFile
  <2>1. CASE d = c
    <3>1. RecordOf(c)' = RecordOf(c)
      BY <1>2 DEF RecordOf
    <3> QED
      BY <1>7, <2>1, <3>1
  <2>2. CASE d # c
    <3>1. RecordOf(d) \in copy[c]
      BY <1>7, <1>8, <2>2 DEF FileInv, WorkIsOnFile
    <3>2. RecordOf(d).who # c
      BY <2>2 DEF RecordOf
    <3> QED
      BY <1>7, <1>8, <2>2, <3>1, <3>2
  <2> QED
    BY <2>1, <2>2
<1> HIDE DEF new
<1> QED
  BY <1>1, <1>2, <1>6, <1>7, <1>9, RecordOwn

\* unregister takes the record of its candidate away, whose process has ended or
\* is driven no more, and keeps those of the others.
LEMMA UnregisterWritesKeeps ==
  ASSUME FileInv, NEW c \in Candidates, UnregisterWrites(c)
  PROVE  FileInv'
<1> DEFINE new == {r \in copy[c] : r.who # c}
<1>1. RunInv' /\ Others(c)
  BY RecordKeeps DEF FileInv
<1>2. /\ bot /\ pc[c] = "unrecording" /\ c \in Callers
      /\ UNCHANGED <<choice, exec, life, faults, server>>
      /\ Writes(c, new)
  BY DEF UnregisterWrites, served, Callers
<1>3. copy[c] \subseteq Record /\ OneEach(copy[c])
  BY <1>2 DEF FileInv, Filed
<1>5. new \subseteq Record /\ OneEach(new)
  BY <1>3 DEF OneEach
<1>6. Filed'
  BY <1>2, <1>5, WritesKeep DEF FileInv
<1>7. stale' \in BOOLEAN /\ records' = new /\ (~stale' => ~stale /\ copy[c] = records)
  BY <1>2, FreshWrite DEF FileInv
<1>8. \A d \in Candidates \ {c} : (AtWork(d)' <=> AtWork(d)) /\ RecordOf(d)' = RecordOf(d)
  BY <1>1, <1>2 DEF Others, AtWork, Driven, RecordOf, life
<1>9. ~AtWork(c)'
  <2>1. Shape /\ RunOf(c)
    BY DEF FileInv, RunInv
  <2>2. exec'[c] # "working"
    BY <1>2, <2>1 DEF RunOf, ModeFollowsPc
  <2>3. pc'[c] \in {"launch", "done"}
    BY <2>1 DEF Shape, UnregisterWrites, Leaves, Returns, Goes
  <2> QED
    BY <2>2, <2>3 DEF AtWork, Driven
<1>10. WorkIsOnFile'
  <2> SUFFICES ASSUME ~stale', NEW d \in Candidates, AtWork(d)'
               PROVE  RecordOf(d)' \in records'
    BY DEF WorkIsOnFile
  <2>1. d # c
    BY <1>9
  <2>2. RecordOf(d) \in copy[c]
    BY <1>7, <1>8, <2>1 DEF FileInv, WorkIsOnFile
  <2>3. RecordOf(d).who # c
    BY <2>1 DEF RecordOf
  <2> QED
    BY <1>7, <1>8, <2>1, <2>2, <2>3
<1> HIDE DEF new
<1> QED
  BY <1>1, <1>2, <1>6, <1>7, <1>10, RecordOwn

-----------------------------------------------------------------------------
(* The bot and its file.                                                   *)

\* The threads of a dead bot are done or dead, and only an exec it had prompted
\* can go on: its thread waited for it, so it was on file.
LEMMA DeathKeeps ==
  ASSUME FileInv, RunInv', NEW signalled, BotDies(signalled), deaths' \in 0..MaxDeaths,
         bot, UNCHANGED faults
  PROVE  FileInv'
<1>1. Filed'
  <2>1. UNCHANGED records /\ copy' = [p \in Callers |-> {}]
    BY DEF BotDies
  <2>2. copy' \in [Callers -> SUBSET Record] /\ \A p \in Callers : copy'[p] = {}
    BY <2>1
  <2> QED
    BY <2>1, <2>2 DEF FileInv, Filed, OneEach
<1>2. Living'
  BY DEF BotDies, FileInv, Living, choice
<1>3. ThreadsDie'
  BY DEF BotDies, FileInv, ThreadsDie
<1>4. CallsDie' /\ CheckIsCurrent'
  BY DEF BotDies, CallsDie, CheckIsCurrent
<1>5. FreedIsQuiet'
  BY DEF BotDies, FileInv, ThreadsDie, FreedIsQuiet
<1>6. WorkIsOnFile'
  <2> SUFFICES ASSUME ~stale', NEW c \in Candidates, AtWork(c)'
               PROVE  RecordOf(c)' \in records'
    BY DEF WorkIsOnFile
  <2>1. exec'[c] = "working" /\ exec[c] = "working"
    BY DEF AtWork, BotDies
  <2>2. RecordOf(c) \in records /\ RecordOf(c)' = RecordOf(c)
    BY <2>1 DEF FileInv, WorkIsOnFile, AtWork, BotDies, RecordOf
  <2> QED
    BY <2>2 DEF BotDies
<1> QED
  BY <1>1, <1>2, <1>3, <1>4, <1>5, <1>6 DEF FileInv

\* The bot crashes, and signals nobody.
LEMMA CrashKeeps == FileInv /\ Crash => FileInv'
<1> SUFFICES ASSUME FileInv, Crash PROVE FileInv'
  OBVIOUS
<1>1. RunInv'
  BY BotKeeps DEF FileInv
<1>2. deaths' \in 0..MaxDeaths
  <2>1. deaths \in 0..MaxDeaths /\ deaths > 0 /\ deaths' = deaths - 1
    BY DEF Crash, FileInv, Living
  <2> QED
    BY <2>1, AgentRunAssumption
<1> QED
  BY <1>1, <1>2, DeathKeeps DEF Crash

\* The command reads the file and changes nothing else.
LEMMA AbortReadsKeeps == FileInv /\ AbortReads => FileInv'
<1> SUFFICES ASSUME FileInv, AbortReads PROVE FileInv'
  OBVIOUS
<1>1. RunInv'
  BY BotKeeps DEF FileInv
<1>2. Filed'
  BY ReadsKeep DEF FileInv, AbortReads, Callers
<1>3. Living'
  BY DEF AbortReads, FileInv, Living, choice
<1>4. ThreadsDie' /\ CallsDie' /\ CheckIsCurrent' /\ FreedIsQuiet'
  BY DEF AbortReads, FileInv, ThreadsDie, CallsDie, CheckIsCurrent, FreedIsQuiet, thread
<1>5. WorkIsOnFile'
  BY DEF AbortReads, FileInv, WorkIsOnFile, AtWork, Driven, RecordOf, thread, served
<1> QED
  BY <1>1, <1>2, <1>3, <1>4, <1>5 DEF FileInv

\* The check reads what it is going to test.
LEMMA CheckReadsKeeps == FileInv /\ CheckReads => FileInv'
<1> SUFFICES ASSUME FileInv, CheckReads PROVE FileInv'
  OBVIOUS
<1>1. RunInv'
  BY BotKeeps DEF FileInv
<1>2. Filed'
  BY ReadsKeep DEF FileInv, CheckReads, Callers
<1>3. Living'
  BY DEF CheckReads, FileInv, Living, choice
<1>4. ThreadsDie' /\ CallsDie' /\ FreedIsQuiet'
  BY DEF CheckReads, FileInv, ThreadsDie, CallsDie, FreedIsQuiet, thread
<1>5. CheckIsCurrent'
  <2>1. copy'["check"] = records
    BY DEF CheckReads, Reads, FileInv, Filed, Callers
  <2> QED
    BY <2>1 DEF CheckReads, CheckIsCurrent
<1>6. WorkIsOnFile'
  BY DEF CheckReads, FileInv, WorkIsOnFile, AtWork, Driven, RecordOf, thread, served
<1> QED
  BY <1>1, <1>2, <1>3, <1>4, <1>5, <1>6 DEF FileInv

\* The process of a candidate at work answers a signal to the group of its record.
LEMMA WorkIsAlive ==
  ASSUME RunInv, NEW c \in Candidates, AtWork(c)
  PROVE  /\ Alive(RecordOf(c))
         /\ RecordOf(c).own <=> exec[c] \in {"started", "working"}
<1>1. ModeFollowsPc(c) /\ RecordOf(c).who = c /\ RecordOf(c).own = (mode[c] = "exec")
  BY DEF RunInv, RunOf, RecordOf
<1>2. CASE exec[c] \in {"started", "working"}
  BY <1>1, <1>2 DEF ModeFollowsPc, Alive
<1>3. CASE exec[c] \notin {"started", "working"}
  <2>1. server[c] = "up" /\ mode[c] = "app-server"
    BY <1>1, <1>3 DEF AtWork, Driven, ModeFollowsPc, Asking
  <2> QED
    BY <1>1, <1>3, <2>1 DEF Alive
<1> QED
  BY <1>2, <1>3

\* An abort signals every process on file, and then the file is empty: nobody
\* whom it spoke of is at work.
LEMMA AbortSignalsKeeps == FileInv /\ AbortSignals => FileInv'
<1> SUFFICES ASSUME FileInv, AbortSignals PROVE FileInv'
  OBVIOUS
<1> DEFINE hit == {r.who : r \in {x \in copy["abort"] : x.own /\ Alive(x)}}
<1>1. RunInv' /\ RunInv
  BY BotKeeps DEF FileInv
<1>2. bot /\ ~restarted /\ ~freed
  BY DEF AbortSignals, FileInv, CallsDie, ThreadsDie
<1>3. /\ Writes("abort", {}) /\ "abort" \in Callers
      /\ exec' = [c \in Candidates |-> IF c \in hit THEN "gone" ELSE exec[c]]
      /\ UNCHANGED <<pc, mode, server, bot, restarted, freed>>
      /\ \A r \in copy["abort"] : r.own
  BY DEF AbortSignals, Callers, thread, served
<1>4. Filed'
  BY <1>3, WritesKeep DEF FileInv, OneEach
<1>5. stale' \in BOOLEAN /\ (~stale' => ~stale /\ copy["abort"] = records)
  BY <1>3, FreshWrite DEF FileInv
<1>6. Living'
  BY <1>5 DEF AbortSignals, FileInv, Living, choice
<1>7. ThreadsDie' /\ CallsDie' /\ CheckIsCurrent' /\ FreedIsQuiet'
  BY <1>2, <1>3 DEF ThreadsDie, CallsDie, CheckIsCurrent, FreedIsQuiet, AbortSignals
<1>8. WorkIsOnFile'
  <2> SUFFICES ASSUME ~stale', NEW c \in Candidates, AtWork(c)' PROVE FALSE
    BY DEF WorkIsOnFile
  <2>1. AtWork(c)
    BY <1>3 DEF AtWork, Driven
  <2>2. RecordOf(c) \in copy["abort"]
    BY <1>5, <2>1 DEF FileInv, WorkIsOnFile
  <2>3. RecordOf(c).own /\ Alive(RecordOf(c)) /\ RecordOf(c).who = c
    BY <1>1, <1>3, <2>1, <2>2, WorkIsAlive DEF RecordOf
  <2>4. c \in hit
    BY <2>2, <2>3
  <2>5. exec'[c] = "gone"
    BY <1>3, <2>4
  <2>6. Driven(c)'
    BY <2>5 DEF AtWork
  <2>7. mode[c] = "app-server"
    BY <1>1, <1>3, <2>5, <2>6 DEF Driven, RunInv, RunOf, ModeFollowsPc, Asking
  <2> QED
    BY <2>3, <2>7 DEF RecordOf
<1> QED
  BY <1>1, <1>4, <1>6, <1>7, <1>8 DEF FileInv

\* The signal that ends the bot too.
LEMMA AbortKillsKeeps == FileInv /\ AbortKills => FileInv'
<1> SUFFICES ASSUME FileInv, AbortKills PROVE FileInv'
  OBVIOUS
<1>1. RunInv'
  BY BotKeeps DEF FileInv
<1>2. deaths' \in 0..MaxDeaths /\ UNCHANGED faults /\ bot
  BY DEF AbortKills, FileInv, Living
<1>3. PICK signalled \in SUBSET {r.who : r \in {x \in copy["abort"] : x.own}} :
        BotDies(signalled)
  BY DEF AbortKills
<1> QED
  BY <1>1, <1>2, <1>3, DeathKeeps

\* The bot comes back to the file it left; what it drove is at most still running.
LEMMA RestartKeeps == FileInv /\ Restart => FileInv'
<1> SUFFICES ASSUME FileInv, Restart PROVE FileInv'
  OBVIOUS
<1>1. RunInv'
  BY BotKeeps DEF FileInv
<1>2. /\ ~bot /\ bot' /\ restarted'
      /\ UNCHANGED <<choice, pc, mode, records, copy, stale, abort, check, freed, deaths,
                     faults>>
      /\ group' \in {"first", "other"}
  BY DEF Restart, thread, file
<1>3. \A c \in Candidates : exec'[c] = "working" => exec[c] = "working"
  BY DEF Restart
<1>4. \A c \in Candidates : pc[c] \in {"done", "dead"}
  BY <1>2 DEF FileInv, ThreadsDie
<1>5. Filed'
  BY <1>2 DEF FileInv, Filed
<1>6. Living'
  BY <1>2 DEF Restart, FileInv, Living, choice
<1>7. ThreadsDie' /\ CallsDie' /\ CheckIsCurrent' /\ FreedIsQuiet'
  BY <1>2, <1>3, <1>4 DEF FileInv, ThreadsDie, CallsDie, CheckIsCurrent, FreedIsQuiet
<1>8. WorkIsOnFile'
  <2>1. \A c \in Candidates : AtWork(c)' => AtWork(c) /\ RecordOf(c)' = RecordOf(c)
    BY <1>2, <1>3, <1>4 DEF AtWork, Driven, RecordOf
  <2> QED
    BY <1>2, <2>1 DEF FileInv, WorkIsOnFile
<1> QED
  BY <1>1, <1>5, <1>6, <1>7, <1>8 DEF FileInv

\* The check leaves out the dead: whoever is at work answers.  After a restart
\* nobody else writes, so that an empty file means that nobody is at work.
LEMMA CheckEndsKeeps == FileInv /\ CheckEnds => FileInv'
<1> SUFFICES ASSUME FileInv, CheckEnds PROVE FileInv'
  OBVIOUS
<1> DEFINE active == {r \in copy["check"] : Alive(r)}
<1>1. RunInv' /\ RunInv
  BY BotKeeps DEF FileInv
<1>2. /\ bot /\ check = "testing" /\ check' = "idle" /\ "check" \in Callers
      /\ UNCHANGED <<pc, mode, server, exec, bot, restarted, abort>>
      /\ freed' = (restarted /\ active = {})
  BY DEF CheckEnds, Callers, thread, served
<1>3. \/ /\ active = copy["check"] /\ copy' = [copy EXCEPT !["check"] = {}]
         /\ UNCHANGED <<records, stale>>
      \/ Writes("check", active)
  BY DEF CheckEnds
<1>4. active \subseteq Record /\ OneEach(active)
  BY <1>2 DEF FileInv, Filed, OneEach
<1>5. Filed'
  <2>1. CASE UNCHANGED records /\ copy' = [copy EXCEPT !["check"] = {}]
    BY <1>2, <2>1 DEF FileInv, Filed, OneEach
  <2>2. CASE Writes("check", active)
    BY <1>2, <1>4, <2>2, WritesKeep DEF FileInv
  <2> QED
    BY <1>3, <2>1, <2>2
<1>6. stale' \in BOOLEAN
  BY <1>2, <1>3, FreshWrite DEF FileInv, Living
<1>7. ~stale' =>
        /\ ~stale
        /\ records' = records \/ (copy["check"] = records /\ records' = active)
  BY <1>2, <1>3, FreshWrite DEF FileInv
<1>8. ~stale' /\ restarted => copy["check"] = records
  BY <1>2 DEF FileInv, CheckIsCurrent
<1>9. \A c \in Candidates : AtWork(c)' = AtWork(c) /\ RecordOf(c)' = RecordOf(c)
  BY <1>2 DEF AtWork, Driven, RecordOf
<1>10. \A c \in Candidates :
         ~stale' /\ AtWork(c) /\ copy["check"] = records => RecordOf(c) \in active
  BY <1>1, <1>7, WorkIsAlive DEF FileInv, WorkIsOnFile
<1>11. WorkIsOnFile'
  BY <1>7, <1>9, <1>10 DEF FileInv, WorkIsOnFile
<1>12. FreedIsQuiet'
  BY <1>2, <1>8, <1>10 DEF FreedIsQuiet, AtWork
<1>13. ThreadsDie' /\ CallsDie' /\ CheckIsCurrent'
  BY <1>2 DEF FileInv, ThreadsDie, CallsDie, CheckIsCurrent
<1>14. Living'
  BY <1>2, <1>6 DEF CheckEnds, FileInv, Living, choice
<1> QED
  BY <1>1, <1>5, <1>11, <1>12, <1>13, <1>14 DEF FileInv

\* Every step keeps the file true of the processes at work.
LEMMA FileStep == FileInv /\ [Next]_vars => FileInv'
<1> SUFFICES ASSUME FileInv, [Next]_vars PROVE FileInv'
  OBVIOUS
<1>1. CASE UNCHANGED vars
  <2>1. RunInv'
    BY <1>1, StepInvariant DEF FileInv
  <2>2. Filed' /\ Living'
    BY <1>1 DEF vars, choice, thread, served, file, life, FileInv, Filed, Living
  <2>3. ThreadsDie' /\ CallsDie' /\ CheckIsCurrent' /\ FreedIsQuiet'
    BY <1>1 DEF vars, thread, file, life, FileInv, ThreadsDie, CallsDie, CheckIsCurrent,
                FreedIsQuiet
  <2>4. WorkIsOnFile'
    BY <1>1 DEF vars, thread, served, file, life, FileInv, WorkIsOnFile, AtWork, Driven,
                RecordOf
  <2> QED
    BY <2>1, <2>2, <2>3, <2>4 DEF FileInv
<1>2. ASSUME NEW c \in Candidates, Proceeds(c) PROVE FileInv'
  BY <1>2, WorkSteps, RecordReads, RegisterWritesKeeps, UnregisterWritesKeeps DEF Proceeds
<1>3. ASSUME NEW c \in Candidates, Works(c) \/ Fails(c) \/ ServerIsLeft(c) PROVE FileInv'
  BY <1>3, WorkSteps, RecordReads DEF Works, Fails
<1>4. CASE Crash \/ AbortReads \/ AbortSignals \/ AbortKills \/ Restart \/ Check
  BY <1>4, CrashKeeps, AbortReadsKeeps, AbortSignalsKeeps, AbortKillsKeeps, RestartKeeps,
     CheckReadsKeeps, CheckEndsKeeps DEF Check
<1> QED
  BY <1>1, <1>2, <1>3, <1>4 DEF Next

\* Unless it was overwritten from a copy out of date, the file names every process
\* that is at work, with the kind of group it has, and names none twice.
THEOREM FileInvariantHolds == Spec => []FileInv
<1>1. Init => FileInv
  BY FileInitially
<1>2. FileInv /\ [Next]_vars => FileInv'
  BY FileStep
<1> QED
  BY <1>1, <1>2, PTL DEF Spec

\* The state is well formed, and no candidate has two records in the file.
THEOREM TypeCorrect == Spec => []TypeOK
<1>1. FileInv => TypeOK
  <2> SUFFICES ASSUME FileInv PROVE TypeOK
    OBVIOUS
  <2>1. Shape /\ Filed /\ Living
    BY DEF FileInv, RunInv
  <2>2. /\ pc \in [Candidates -> Asking \union
              {"ready", "register", "recording", "collect", "closing", "launch", "prompt",
               "wait", "unregister", "unrecording", "done", "dead"}]
        /\ mode \in [Candidates -> {"none", "app-server", "exec"}]
    BY <2>1 DEF Shape, Pcs, Modes
  <2>3. /\ failing \in [Candidates -> BOOLEAN] /\ reader \in [Candidates -> BOOLEAN]
        /\ server \in [Candidates -> {"none", "up", "gone"}]
        /\ exec \in [Candidates -> {"none", "started", "working", "gone"}]
    BY <2>1 DEF Shape, Servers, Execs
  <2>4. /\ turn \in [Candidates -> {"none", "running", "completed", "failed"}]
        /\ heard \in [Candidates -> {"none", "completed", "failed"}]
    BY <2>1 DEF Shape, Turns, Reports
  <2>5. result \in [Candidates -> {"none", "app-server", "exec", "raised"}]
    <3>1. Modes \union {"raised"} = {"none", "app-server", "exec", "raised"}
      BY DEF Modes
    <3> QED
      BY <2>1, <3>1 DEF Shape
  <2>6. /\ records \subseteq Record /\ copy \in [Callers -> SUBSET Record]
        /\ \A r, s \in records : r.who = s.who => r = s
    BY <2>1 DEF Filed, OneEach
  <2>7. /\ appServer \in BOOLEAN /\ rollover \in BOOLEAN
        /\ abort \in {"idle", "signalling", "blocked"} /\ check \in {"idle", "testing"}
        /\ bot \in BOOLEAN /\ restarted \in BOOLEAN /\ freed \in BOOLEAN /\ stale \in BOOLEAN
        /\ group \in {"first", "other"}
        /\ deaths \in 0..MaxDeaths /\ faults \in 0..MaxFaults
    BY <2>1 DEF Living
  <2>8. {bot, restarted, freed, stale} \subseteq BOOLEAN
    BY <2>7
  <2> QED
    BY <2>2, <2>3, <2>4, <2>5, <2>6, <2>7, <2>8 DEF TypeOK
<1> QED
  BY <1>1, FileInvariantHolds, PTL

\* register and unregister keep the records of the other candidates: what /abort
\* can stop and is_active can see does not depend on who comes and goes.
THEOREM OnFileHolds == Spec => []OnFileWhileDriven
<1>1. FileInv => OnFileWhileDriven
  BY DEF FileInv, WorkIsOnFile, AtWork, RecordOf, OnFileWhileDriven
<1> QED
  BY <1>1, FileInvariantHolds, PTL

\* A restarted bot gives the issue to a new attempt only when no exec of the old one
\* works at it any more.
THEOREM FreedIsQuietHolds == Spec => []FreedIsQuiet
<1>1. FileInv => FreedIsQuiet
  BY DEF FileInv
<1> QED
  BY <1>1, FileInvariantHolds, PTL
=============================================================================
