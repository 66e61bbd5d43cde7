-------------------------- MODULE BxpSessionProofs ---------------------------
(***************************************************************************)
(* Proofs about BxpSession, for any client programs that fit the routes of *)
(* the server, any handlers, windows and limits: no assertion of such a    *)
(* program ever fails, and every handler reads the upload of the request   *)
(* it serves.                                                              *)
(***************************************************************************)
EXTENDS BxpSession, BxpServiceProofs, FiniteSetTheorems

(***************************************************************************)
(* How a rank grows; it numbers the members of its set; where two places   *)
(* have the same rank in a set they have it in each of its subsets.        *)
(***************************************************************************)
LEMMA SameMembers ==
  ASSUME NEW A \in SUBSET Nat, NEW B \in SUBSET Nat, \A i \in Nat : i \in A <=> i \in B
  PROVE  A = B
  OBVIOUS

LEMMA UpToMembers ==
  ASSUME NEW S \in SUBSET Nat, NEW n \in Nat
  PROVE  /\ UpTo(S, n) \in SUBSET Nat
         /\ \A i \in Nat : i \in UpTo(S, n) <=> i \in S /\ i <= n
  BY DEF UpTo

LEMMA UpToFinite ==
  ASSUME NEW S \in SUBSET Nat, NEW n \in Nat
  PROVE  IsFiniteSet(UpTo(S, n)) /\ Rank(S, n) \in Nat
  <1>1. UpTo(S, n) \in SUBSET Nat /\ \A i \in UpTo(S, n) : i <= n
    BY DEF UpTo
  <1>2. IsFiniteSet(UpTo(S, n))
    BY <1>1, FS_BoundedSetOfNaturals
  <1> QED BY <1>2, FS_CardinalityType DEF Rank

LEMMA RankFacts ==
  ASSUME NEW S \in SUBSET Nat, NEW n \in Nat
  PROVE  /\ Rank(S, n) \in Nat
         /\ Rank(S, n + 1) = Rank(S, n) + (IF n + 1 \in S THEN 1 ELSE 0)
         /\ 0 \notin S => Rank(S, 0) = 0
  <1>1. /\ UpTo(S, n) \in SUBSET Nat /\ UpTo(S, n + 1) \in SUBSET Nat
        /\ \A i \in Nat : i \in UpTo(S, n) <=> i \in S /\ i <= n
        /\ \A i \in Nat : i \in UpTo(S, n + 1) <=> i \in S /\ i <= n + 1
    BY UpToMembers
  <1>2. Rank(S, n) \in Nat /\ IsFiniteSet(UpTo(S, n)) /\ Rank(S, n) = Cardinality(UpTo(S, n))
    BY UpToFinite DEF Rank
  <1>3. ASSUME n + 1 \in S PROVE Rank(S, n + 1) = Rank(S, n) + 1
    <2>1. n + 1 \notin UpTo(S, n)
      BY <1>1
    <2>2. \A i \in Nat : i \in UpTo(S, n + 1) <=> i \in UpTo(S, n) \cup {n + 1}
      BY <1>1, <1>3
    <2>3. UpTo(S, n + 1) = UpTo(S, n) \cup {n + 1}
      BY <1>1, <2>2, SameMembers
    <2> QED BY <1>2, <2>1, <2>3, FS_AddElement DEF Rank
  <1>4. ASSUME n + 1 \notin S PROVE Rank(S, n + 1) = Rank(S, n)
    <2>1. \A i \in Nat : i \in UpTo(S, n + 1) <=> i \in UpTo(S, n)
      BY <1>1, <1>4
    <2>2. UpTo(S, n + 1) = UpTo(S, n)
      BY <1>1, <2>1, SameMembers
    <2> QED BY <2>2 DEF Rank
  <1>5. ASSUME 0 \notin S PROVE Rank(S, 0) = 0
    <2>1. \A i \in Nat : i \notin UpTo(S, 0)
      BY <1>5, UpToMembers
    <2>2. UpTo(S, 0) = {}
      BY <2>1, UpToMembers
    <2> QED BY <2>2, FS_EmptySet DEF Rank
  <1> QED BY <1>2, <1>3, <1>4, <1>5

LEMMA RankSubsets ==
  ASSUME NEW S \in SUBSET Nat, NEW m \in Nat, NEW n \in Nat, m <= n, Rank(S, m) = Rank(S, n)
  PROVE  UpTo(S, m) = UpTo(S, n)
  <1>1. /\ UpTo(S, m) \in SUBSET Nat /\ UpTo(S, n) \in SUBSET Nat
        /\ \A i \in Nat : i \in UpTo(S, m) <=> i \in S /\ i <= m
        /\ \A i \in Nat : i \in UpTo(S, n) <=> i \in S /\ i <= n
    BY UpToMembers
  <1>2. IsFiniteSet(UpTo(S, n))
    BY UpToFinite
  <1>3. \A i \in Nat : i \in UpTo(S, m) => i \in UpTo(S, n)
    BY <1>1
  <1> QED BY <1>1, <1>2, <1>3, FS_Subset DEF Rank

LEMMA RankNumbers ==
  ASSUME NEW S \in SUBSET Nat, NEW i \in S, NEW j \in S, Rank(S, i) = Rank(S, j)
  PROVE  i = j
  <1>1. i <= j \/ j <= i
    OBVIOUS
  <1>2. UpTo(S, i) = UpTo(S, j)
    BY <1>1, RankSubsets
  <1> QED BY <1>2, UpToMembers

LEMMA RankInSubset ==
  ASSUME NEW S \in SUBSET Nat, NEW T \in SUBSET S, NEW m \in Nat, NEW n \in Nat,
         Rank(S, m) = Rank(S, n)
  PROVE  Rank(T, m) = Rank(T, n)
  <1>1. UpTo(S, m) = UpTo(S, n)
    BY RankSubsets
  <1>2. \A i \in Nat : i \in UpTo(T, m) <=> i \in UpTo(T, n)
    BY <1>1, UpToMembers
  <1>3. UpTo(T, m) = UpTo(T, n)
    BY <1>2, SameMembers, UpToMembers
  <1> QED BY <1>3 DEF Rank
-------------------------------------------------------------------------------
(***************************************************************************)
(* What is left of a program once its first n calls have returned.         *)
(***************************************************************************)
After(p, n) == SubSeq(p, n + 1, Len(p))

LEMMA AfterFacts ==
  ASSUME NEW p \in Seq(Call), NEW n \in 0..Len(p)
  PROVE  /\ After(p, 0) = p
         /\ After(p, Len(p)) = <<>>
         /\ After(p, n) # <<>> => /\ n + 1 \in DOMAIN p
                                 /\ Head(After(p, n)) = p[n + 1]
                                 /\ Tail(After(p, n)) = After(p, n + 1)
  <1>1. After(p, 0) = p
    BY SubSeqFull DEF After
  <1>2. \A k \in 0..Len(p) : k >= Len(p) => After(p, k) = <<>>
    BY SubSeqEmpty DEF After
  <1>3. ASSUME n < Len(p)
        PROVE  Head(After(p, n)) = p[n + 1] /\ Tail(After(p, n)) = After(p, n + 1)
    <2>1. n + 1 \in 1..Len(p) /\ Len(p) \in (n + 1)..Len(p)
      BY <1>3
    <2> QED BY <2>1, HeadTailOfSubSeq DEF After
  <1> QED BY <1>1, <1>2, <1>3

(***************************************************************************)
(* The program is somewhere in one of the programs, and has an outcome.    *)
(***************************************************************************)
Placed ==
  /\ \E p \in Programs : \E n \in 0..Len(p) : todo = After(p, n)
  /\ outcome \in {"running", "ok", "err", "panic"}

LEMMA CallFacts ==
  ASSUME Placed, todo # <<>>
  PROVE  /\ Head(todo) \in Call
         /\ \E p \in Programs : \E n \in 0..Len(p) : Tail(todo) = After(p, n)
  <1>1. PICK p \in Programs : \E n \in 0..Len(p) : todo = After(p, n)
    BY DEF Placed
  <1>2. p \in Seq(Call)
    BY ProgramsAssumption
  <1>3. PICK n \in 0..Len(p) : todo = After(p, n)
    BY <1>1
  <1>4. n + 1 \in DOMAIN p /\ Head(todo) = p[n + 1] /\ Tail(todo) = After(p, n + 1)
    BY <1>2, <1>3, AfterFacts
  <1>5. n + 1 \in 0..Len(p)
    BY <1>2, <1>4
  <1> QED BY <1>2, <1>4, <1>5

(***************************************************************************)
(* What the calls of a program carry.                                      *)
(***************************************************************************)
LEMMA CallFields ==
  ASSUME NEW c \in Call
  PROVE  /\ c.op = "send" => c.frame \in Requests
         /\ c.op = "upload" => c.id \in ReqIds /\ c.size \in 0..MaxChunks
  BY DEF Call

LEMMA PlacedNext == Placed /\ [SessionNext]_sessionVars => Placed'
  <1> SUFFICES ASSUME Placed, [SessionNext]_sessionVars PROVE Placed'
    OBVIOUS
  <1>1. ASSUME UNCHANGED todo \/ (todo # <<>> /\ todo' = Tail(todo)) \/ todo' = <<>>,
               outcome' \in {outcome, "ok", "err", "panic"}
        PROVE  Placed'
    <2>1. \E p \in Programs : \E n \in 0..Len(p) : <<>> = After(p, n)
      <3>1. PICK p \in Programs : TRUE
        BY DEF Placed
      <3>2. p \in Seq(Call)
        BY ProgramsAssumption
      <3>3. After(p, Len(p)) = <<>> /\ Len(p) \in 0..Len(p)
        BY <3>2, AfterFacts
      <3> QED BY <3>3
    <2> QED BY <1>1, <2>1, CallFacts DEF Placed
  <1>2. CASE ProgramSends
    BY <1>1, <1>2 DEF ProgramSends, Calls, Returns
  <1>3. CASE ProgramReceives
    BY <1>1, <1>3 DEF ProgramReceives, Calls, Returns, Skips, Asserts
  <1>4. CASE ProgramAcceptsStream
    BY <1>1, <1>4 DEF ProgramAcceptsStream, Awaits, pvars
  <1>5. CASE ProgramReadsStream
    BY <1>1, <1>5 DEF ProgramReadsStream, Calls, Returns, Asserts, Errs
  <1>6. CASE ProgramDrains
    BY <1>1, <1>6 DEF ProgramDrains, Calls, Returns, Asserts, Awaits, pvars
  <1>7. CASE ProgramUploads
    BY <1>1, <1>7 DEF ProgramUploads, Calls, Returns, Errs, Awaits, pvars
  <1>8. CASE ProgramFails \/ ProgramEnds
    BY <1>1, <1>8 DEF ProgramFails, ProgramEnds, Errs
  <1>9. CASE SessionServerNext \/ (LoseConnection /\ UNCHANGED pvars) \/ UNCHANGED sessionVars
    BY <1>1, <1>9 DEF SessionServerNext, pvars, sessionVars
  <1> QED BY <1>2, <1>3, <1>4, <1>5, <1>6, <1>7, <1>8, <1>9 DEF SessionNext, ProgramNext

(***************************************************************************)
(* A session is a connection whose client makes the calls of a program.    *)
(***************************************************************************)
LEMMA SessionStep == Placed /\ [SessionNext]_sessionVars => [Next]_vars
  <1> SUFFICES ASSUME Placed, [SessionNext]_sessionVars PROVE [Next]_vars
    OBVIOUS
  <1>1. CASE ProgramSends
    BY <1>1, CallFacts, CallFields DEF ProgramSends, Calls, Next, ClientNext
  <1>2. CASE ProgramUploads
    BY <1>2, CallFacts, CallFields DEF ProgramUploads, Calls, Next, ClientNext
  <1>3. CASE \/ ProgramReceives \/ ProgramAcceptsStream \/ ProgramReadsStream \/ ProgramDrains
             \/ ProgramEnds
    BY <1>3 DEF ProgramReceives, ProgramAcceptsStream, ProgramReadsStream, ProgramDrains,
                ProgramEnds, Next, ClientNext
  <1>4. CASE \/ ProgramFails \/ SessionServerNext \/ (LoseConnection /\ UNCHANGED pvars)
             \/ UNCHANGED sessionVars
    BY <1>4 DEF ProgramFails, SessionServerNext, sessionVars, Next, SourceNext
  <1> QED BY <1>1, <1>2, <1>3, <1>4 DEF SessionNext, ProgramNext

LEMMA PlacedInit == SessionInit => Placed
  <1> SUFFICES ASSUME SessionInit PROVE Placed
    OBVIOUS
  <1>1. todo \in Programs /\ todo \in Seq(Call)
    BY ProgramsAssumption DEF SessionInit
  <1>2. todo = After(todo, 0) /\ 0 \in 0..Len(todo)
    BY <1>1, AfterFacts
  <1> QED BY <1>1, <1>2 DEF SessionInit, Placed

LEMMA SpecPlaced == SessionSpec => []Placed
  BY PlacedInit, PlacedNext, PTL DEF SessionSpec

(***************************************************************************)
(* Whatever its client programs are, a session is a connection of          *)
(* BxpConnection, so that what is proved of connections holds in it.       *)
(***************************************************************************)
THEOREM SessionIsConnection == SessionSpec => Spec
  <1>1. SessionInit => Init
    BY DEF SessionInit
  <1> QED BY <1>1, SpecPlaced, SessionStep, PTL DEF SessionSpec, Spec

(***************************************************************************)
(* In particular it is a BxpService, as its client sees it.                *)
(***************************************************************************)
THEOREM SessionImplementsService == SessionSpec => ImplementsService
  BY SessionIsConnection, Refinement, PTL

(***************************************************************************)
(* Type correctness of sessions: what is left to do is always the end of   *)
(* one of the programs.                                                    *)
(***************************************************************************)
THEOREM SessionTypeCorrect == SessionSpec => []SessionTypeOK
  <1>1. Placed /\ TypeOK => SessionTypeOK
    BY DEF Placed, After, SessionTypeOK
  <1> QED BY <1>1, SpecPlaced, SessionIsConnection, TypeCorrect, PTL
-------------------------------------------------------------------------------
(***************************************************************************)
(* The steps of the data planes once more, for callers that never give up: *)
(* what stays of each stream, and that it stays whole.                     *)
(***************************************************************************)
StreamsWhole == DownP!AllWhole /\ UpP!AllWhole

SameStreams(s, t) ==
  /\ DOMAIN t = DOMAIN s /\ Len(t) = Len(s)
  /\ \A i \in DOMAIN s : t[i].req = s[i].req /\ t[i].size = s[i].size

SameReceiver(s, t, i) == t[i].rx = s[i].rx

Grown(s, t, r, n) ==
  /\ Len(t) = Len(s) + 1
  /\ DOMAIN t = DOMAIN s \cup {Len(t)}
  /\ \A i \in DOMAIN s : t[i] = s[i]
  /\ t[Len(t)].req = r /\ t[Len(t)].size = n /\ t[Len(t)].rx = "unaccepted"

LEMMA DownSendsWhole ==
  ASSUME Shape, DownP!AllWhole, NEW i \in DOMAIN down,
         \/ Down!WritePreamble(i) \/ Down!SourceAnswers(i) \/ Down!CopyChunk(i)
         \/ Down!Finish(i) \/ Down!WriteFails(i)
  PROVE  /\ conn' = conn /\ DownP!AllWhole' /\ SameStreams(down, down')
         /\ \A d \in DOMAIN down : SameReceiver(down, down', d)
         /\ Down!WriteFails(i) => conn # "open"
  <1>1. /\ DownP!Sending(i) \/ DownP!SourceAnswers(i)
        /\ Down!WriteFails(i) => DownP!WriteFails(i)
    BY DEF DownP!SourceAnswers, Down!SourceAnswers, DownP!AwaitsSource, Down!AwaitsSource,
           DownP!Ended, Down!Ended, DownP!Writes, Down!Writes, DownP!Sending,
           DownP!WritePreamble, Down!WritePreamble, DownP!CopyChunk, Down!CopyChunk,
           DownP!Finish, Down!Finish, DownP!WriteFails, Down!WriteFails, DownP!Abandon, Down!Abandon
  <1>2. DownP!StreamsOK
    BY DEF Shape
  <1>3. conn' = conn
    BY DownSends, <1>2
  <1> QED BY <1>1, <1>2, <1>3, DownP!SendingWhole, SizesAssumption, ConnectionAssumption
          DEF SameStreams, SameReceiver

LEMMA UpSendsWhole ==
  ASSUME Shape, UpP!AllWhole, NEW i \in DOMAIN up,
         \/ Up!WritePreamble(i) \/ Up!SourceAnswers(i) \/ Up!CopyChunk(i)
         \/ Up!Finish(i) \/ Up!WriteFails(i)
  PROVE  /\ conn' = conn /\ UpP!AllWhole' /\ SameStreams(up, up')
         /\ \A m \in DOMAIN up : SameReceiver(up, up', m)
         /\ Up!WriteFails(i) => conn # "open"
  <1>1. /\ UpP!Sending(i) \/ UpP!SourceAnswers(i)
        /\ Up!WriteFails(i) => UpP!WriteFails(i)
    BY DEF UpP!SourceAnswers, Up!SourceAnswers, UpP!AwaitsSource, Up!AwaitsSource,
           UpP!Ended, Up!Ended, UpP!Writes, Up!Writes, UpP!Sending,
           UpP!WritePreamble, Up!WritePreamble, UpP!CopyChunk, Up!CopyChunk,
           UpP!Finish, Up!Finish, UpP!WriteFails, Up!WriteFails, UpP!Abandon, Up!Abandon
  <1>2. UpP!StreamsOK
    BY DEF Shape
  <1>3. conn' = conn
    BY UpMoves, <1>2
  <1> QED BY <1>1, <1>2, <1>3, UpP!SendingWhole, SizesAssumption, ConnectionAssumption
          DEF SameStreams, SameReceiver

LEMMA DownReceivesWhole ==
  ASSUME Shape, DownP!AllWhole, NEW i \in DOMAIN down,
         \/ Down!AcceptUni(i) \/ Down!ReadPreamble(i) \/ Down!PreambleMissing(i)
         \/ Down!ReadFails(i) \/ Down!ReadChunk(i) \/ Down!ReadEof(i)
  PROVE  /\ conn' = conn /\ DownP!AllWhole' /\ SameStreams(down, down')
         /\ \A d \in DOMAIN down : d # i => SameReceiver(down, down', d)
         /\ ~Down!PreambleMissing(i)
         /\ down'[i].rx = "dropped" => conn # "open"
  <1>1. DownP!Receiving(i) /\ (Down!PreambleMissing(i) => DownP!PreambleMissing(i))
    BY DEF DownP!Receiving, DownP!AcceptUni, Down!AcceptUni, DownP!Known, Down!Known,
           DownP!ReadPreamble, Down!ReadPreamble, DownP!PreambleMissing, Down!PreambleMissing,
           DownP!ReadChunk, Down!ReadChunk, DownP!ReadEof, Down!ReadEof,
           DownP!ReadFails, Down!ReadFails, DownP!DropRecv, Down!DropRecv
  <1>2. DownP!StreamsOK
    BY DEF Shape
  <1>3. conn' = conn
    BY DownReceives, <1>2
  <1> QED BY <1>1, <1>2, <1>3, DownP!ReceivingWhole, SizesAssumption, ConnectionAssumption
          DEF SameStreams, SameReceiver

LEMMA UpReceivesWhole ==
  ASSUME Shape, UpP!AllWhole, NEW i \in DOMAIN up,
         \/ Up!AcceptUni(i) \/ Up!ReadPreamble(i) \/ Up!PreambleMissing(i)
         \/ Up!ReadFails(i) \/ Up!ReadChunk(i) \/ Up!ReadEof(i)
  PROVE  /\ conn' = conn /\ UpP!AllWhole' /\ SameStreams(up, up')
         /\ \A m \in DOMAIN up : m # i => SameReceiver(up, up', m)
         /\ ~Up!PreambleMissing(i)
         /\ up'[i].rx = "dropped" => conn # "open"
  <1>1. UpP!Receiving(i) /\ (Up!PreambleMissing(i) => UpP!PreambleMissing(i))
    BY DEF UpP!Receiving, UpP!AcceptUni, Up!AcceptUni, UpP!Known, Up!Known,
           UpP!ReadPreamble, Up!ReadPreamble, UpP!PreambleMissing, Up!PreambleMissing,
           UpP!ReadChunk, Up!ReadChunk, UpP!ReadEof, Up!ReadEof,
           UpP!ReadFails, Up!ReadFails, UpP!DropRecv, Up!DropRecv
  <1>2. UpP!StreamsOK
    BY DEF Shape
  <1>3. conn' = conn
    BY UpMoves, <1>2
  <1> QED BY <1>1, <1>2, <1>3, UpP!ReceivingWhole, SizesAssumption, ConnectionAssumption
          DEF SameStreams, SameReceiver

LEMMA DownReceiver ==
  ASSUME Shape, NEW i \in DOMAIN down
  PROVE  /\ Down!AcceptUni(i) => down[i].rx = "unaccepted" /\ down'[i].rx = "accepted"
         /\ Down!ReadPreamble(i) => down[i].rx = "accepted" /\ down'[i].rx = "live"
         /\ Down!ReadChunk(i) => down[i].rx = "live" /\ down'[i].rx = "live"
         /\ Down!ReadEof(i) => down[i].rx = "live" /\ down'[i].rx = "eof"
         /\ Down!ReadFails(i) => conn # "open" /\ down'[i].rx = "dropped"
  <1>1. /\ Down!AcceptUni(i) => DownP!AcceptUni(i)
        /\ Down!ReadPreamble(i) => DownP!ReadPreamble(i)
        /\ Down!ReadChunk(i) => DownP!ReadChunk(i)
        /\ Down!ReadEof(i) => DownP!ReadEof(i)
        /\ Down!ReadFails(i) => DownP!ReadFails(i)
    BY DEF DownP!AcceptUni, Down!AcceptUni, DownP!Known, Down!Known,
           DownP!ReadPreamble, Down!ReadPreamble, DownP!ReadChunk, Down!ReadChunk, DownP!ReadEof, Down!ReadEof,
           DownP!ReadFails, Down!ReadFails, DownP!DropRecv, Down!DropRecv
  <1> QED BY <1>1, DownP!ReceiverMoves, SizesAssumption, ConnectionAssumption DEF Shape

LEMMA UpReceiver ==
  ASSUME Shape, NEW i \in DOMAIN up
  PROVE  /\ Up!AcceptUni(i) => up[i].rx = "unaccepted" /\ up'[i].rx = "accepted"
         /\ Up!ReadPreamble(i) => up[i].rx = "accepted" /\ up'[i].rx = "live"
         /\ Up!ReadChunk(i) => up[i].rx = "live" /\ up'[i].rx = "live"
         /\ Up!ReadEof(i) => up[i].rx = "live" /\ up'[i].rx = "eof"
         /\ Up!ReadFails(i) => conn # "open" /\ up'[i].rx = "dropped"
  <1>1. /\ Up!AcceptUni(i) => UpP!AcceptUni(i)
        /\ Up!ReadPreamble(i) => UpP!ReadPreamble(i)
        /\ Up!ReadChunk(i) => UpP!ReadChunk(i)
        /\ Up!ReadEof(i) => UpP!ReadEof(i)
        /\ Up!ReadFails(i) => UpP!ReadFails(i)
    BY DEF UpP!AcceptUni, Up!AcceptUni, UpP!Known, Up!Known, UpP!ReadPreamble, Up!ReadPreamble,
           UpP!ReadChunk, Up!ReadChunk, UpP!ReadEof, Up!ReadEof,
           UpP!ReadFails, Up!ReadFails, UpP!DropRecv, Up!DropRecv
  <1> QED BY <1>1, UpP!ReceiverMoves, SizesAssumption, ConnectionAssumption DEF Shape

LEMMA DownOpensWhole ==
  ASSUME Shape, DownP!AllWhole, NEW r \in ReqIds, NEW n \in 0..MaxChunks, Down!OpenUni(r, n)
  PROVE  conn' = conn /\ DownP!AllWhole' /\ Grown(down, down', r, n) /\ conn = "open"
  <1>1. down' = Append(down, DownP!FreshStream(r, n)) /\ conn' = conn /\ conn = "open"
    BY DEF Down!OpenUni, DownP!FreshStream
  <1>2. /\ DownP!AllWhole'
        /\ Len(down') = Len(down) + 1
        /\ DOMAIN down' = DOMAIN down \cup {Len(down')}
        /\ \A j \in DOMAIN down : down'[j] = down[j]
        /\ down'[Len(down')] = DownP!FreshStream(r, n)
    BY <1>1, DownP!OpeningWhole, SizesAssumption, ConnectionAssumption DEF Shape
  <1> QED BY <1>1, <1>2 DEF DownP!FreshStream, Grown

LEMMA UpOpensWhole ==
  ASSUME Shape, UpP!AllWhole, NEW r \in ReqIds, NEW n \in 0..MaxChunks, Up!OpenUni(r, n)
  PROVE  conn' = conn /\ UpP!AllWhole' /\ Grown(up, up', r, n) /\ conn = "open"
  <1>1. up' = Append(up, UpP!FreshStream(r, n)) /\ conn' = conn /\ conn = "open"
    BY DEF Up!OpenUni, UpP!FreshStream
  <1>2. /\ UpP!AllWhole'
        /\ Len(up') = Len(up) + 1
        /\ DOMAIN up' = DOMAIN up \cup {Len(up')}
        /\ \A j \in DOMAIN up : up'[j] = up[j]
        /\ up'[Len(up')] = UpP!FreshStream(r, n)
    BY <1>1, UpP!OpeningWhole, SizesAssumption, ConnectionAssumption DEF Shape
  <1> QED BY <1>1, <1>2 DEF UpP!FreshStream, Grown
-------------------------------------------------------------------------------
(***************************************************************************)
(* The inductive invariant. It places the two parties in the program: the  *)
(* client has completed its first n calls, the server has taken the        *)
(* requests up to the one of call q. Everything either side counts is then *)
(* a rank in the program.                                                  *)
(*                                                                         *)
(* A handler has begun a kind of step once it passed it or is in it.       *)
(***************************************************************************)
Passed(op) == \E s \in Steps(reqLog[reqRead], op) : s <= step

Begun(op) ==
  \/ Passed(op)
  \/ op = "send_data" /\ spc = "streaming"
  \/ op = "read_data" /\ spc = "pulling"

(***************************************************************************)
(* How often handlers have done so, with the server at call q.             *)
(***************************************************************************)
Done(p, op, q) ==
  IF Busy THEN Rank(Asking(p, op), q - 1) + (IF Begun(op) THEN 1 ELSE 0)
  ELSE Rank(Asking(p, op), q)

(***************************************************************************)
(* The server at call q of program p, while the connection is open.        *)
(***************************************************************************)
UploadsTaken(p, q) ==
  /\ Done(p, "read_data", q) <= Len(up)
  /\ \A m \in DOMAIN up : up[m].rx = "unaccepted" <=> m > Done(p, "read_data", q)
  /\ \A m \in DOMAIN up : up[m].rx \in {"accepted", "live"} =>
       spc = "pulling" /\ m = Done(p, "read_data", q)

ServerAt(p, q) ==
  /\ spc \in {"accepting", "receiving"} \/ Busy
  /\ Rank(Kind(p, "send"), q) = reqRead
  /\ Busy => q \in Kind(p, "send") /\ reqLog[reqRead] = p[q].frame
  /\ Len(rspLog) = Done(p, "respond", q)
  /\ Len(down) = Done(p, "send_data", q)
  /\ UploadsTaken(p, q)

(***************************************************************************)
(* The client after n calls of p: its logs, its uploads, and the streams   *)
(* it drained, those it was handed, the one it is waiting for.             *)
(***************************************************************************)
ReceiverState(d, drained, handed) ==
  IF d <= drained THEN "eof"
  ELSE IF d <= handed THEN "live"
  ELSE IF d = handed + 1 /\ cpc = "accepting" THEN "accepted"
  ELSE "unaccepted"

DownloadsTaken(p, n) ==
  LET drained == Rank(Kind(p, "drain"), n)
      handed == Rank(Kind(p, "read_data"), n)
  IN  /\ drained <= handed
      /\ handed <= Len(down)
      /\ cpc = "accepting" => handed + 1 <= Len(down)
      /\ \A d \in DOMAIN down : down[d].rx = ReceiverState(d, drained, handed)

ClientAt(p, n) ==
  /\ todo = After(p, n)
  /\ cpc = "accepting" => n + 1 \in Kind(p, "read_data")
  /\ cpc = "uploading" => n + 1 \in Kind(p, "upload")
  /\ Len(reqLog) = Rank(Kind(p, "send"), n)
  /\ rspRead = Rank(Kind(p, "receive"), n)
  /\ Len(up) = Rank(Kind(p, "upload"), n) + (IF cpc = "uploading" THEN 1 ELSE 0)
  /\ DownloadsTaken(p, n)

(***************************************************************************)
(* Which calls the requests and the streams of either direction are from.  *)
(***************************************************************************)
Asked(p) ==
  \A k \in DOMAIN reqLog : \E i \in Kind(p, "send") :
    Rank(Kind(p, "send"), i) = k /\ reqLog[k] = p[i].frame

Offered(p) ==
  \A m \in DOMAIN up : \E j \in Kind(p, "upload") :
    Rank(Kind(p, "upload"), j) = m /\ up[m].req = p[j].id

Shipped(p) ==
  \A d \in DOMAIN down : \E i \in Asking(p, "send_data") :
    /\ Rank(Asking(p, "send_data"), i) = d
    /\ down[d].req = p[i].frame.id
    /\ \E s \in Steps(p[i].frame, "send_data") : down[d].size = ScriptOf(p[i].frame)[s].size

Tracks(p, n) ==
  /\ Asked(p) /\ Offered(p) /\ Shipped(p)
  /\ conn = "open" => \E q \in 0..Len(p) : ServerAt(p, q)
  /\ outcome = "running" /\ todo # <<>> => ClientAt(p, n)

(***************************************************************************)
(* The k-th response answers the k-th request, no call fails before the    *)
(* connection is lost, and nobody ends it before the program does.         *)
(***************************************************************************)
InOrder == \A k \in DOMAIN rspLog : rspLog[k].for = k

Steady ==
  /\ conn # "server_closed"
  /\ conn = "closed" => cpc = "closed"
  /\ cpc = "closed" => outcome # "running"
  /\ outcome # "panic"
  /\ outcome = "err" => conn = "lost"

SessionInv ==
  /\ Placed /\ Correlated /\ StreamsWhole
  /\ Steady /\ InOrder
  /\ \E p \in Programs : \E n \in 0..Len(p) : Tracks(p, n)
-------------------------------------------------------------------------------
(***************************************************************************)
(* Programs: their calls are numbered from 1, their requests are servable. *)
(***************************************************************************)
LEMMA ProgramFacts ==
  ASSUME NEW p \in Programs
  PROVE  /\ p \in Seq(Call) /\ Fits(p) /\ Len(p) \in Nat /\ DOMAIN p = 1..Len(p)
         /\ \A op : /\ Kind(p, op) \in SUBSET Nat /\ 0 \notin Kind(p, op)
                    /\ Kind(p, op) \in SUBSET DOMAIN p
                    /\ Asking(p, op) \in SUBSET Kind(p, "send")
                    /\ Asking(p, op) \in SUBSET Nat /\ 0 \notin Asking(p, op)
         /\ \A i \in Kind(p, "send") : Servable(p[i].frame)
         /\ Asking(p, "respond") = Kind(p, "send")
  <1>1. p \in Seq(Call) /\ Fits(p)
    BY ProgramsAssumption, ProgramsFit
  <1>2. DOMAIN p = 1..Len(p) /\ Len(p) \in Nat
    BY <1>1
  <1>3. \A op : /\ Kind(p, op) \in SUBSET DOMAIN p
               /\ Asking(p, op) \in SUBSET Kind(p, "send")
    BY DEF Kind, Asking
  <1>4. \A i \in Kind(p, "send") : Servable(p[i].frame)
    BY <1>1 DEF Fits
  <1>5. Asking(p, "respond") = Kind(p, "send")
    BY <1>4 DEF Servable, Asking
  <1>6. \A op : Kind(p, op) \in SUBSET Nat /\ 0 \notin Kind(p, op)
    BY <1>2, <1>3
  <1>7. \A op : Asking(p, op) \in SUBSET Nat /\ 0 \notin Asking(p, op)
    BY <1>3, <1>6
  <1> QED BY <1>1, <1>2, <1>3, <1>4, <1>5, <1>6, <1>7

LEMMA AskedServable ==
  ASSUME NEW p \in Programs, Asked(p)
  PROVE  \A k \in DOMAIN reqLog : Servable(reqLog[k]) /\ Receivable(reqLog[k])
  <1>1. \A k \in DOMAIN reqLog : Servable(reqLog[k])
    BY ProgramFacts DEF Asked
  <1> QED BY <1>1 DEF Servable

LEMMA CallRank ==
  ASSUME NEW p \in Programs, NEW n \in Nat, NEW op
  PROVE  /\ Rank(Kind(p, op), n) \in Nat
         /\ Rank(Kind(p, op), n + 1) = Rank(Kind(p, op), n) + (IF n + 1 \in Kind(p, op) THEN 1 ELSE 0)
         /\ Rank(Kind(p, op), 0) = 0
         /\ Rank(Asking(p, op), n) \in Nat
         /\ Rank(Asking(p, op), n + 1)
              = Rank(Asking(p, op), n) + (IF n + 1 \in Asking(p, op) THEN 1 ELSE 0)
         /\ Rank(Asking(p, op), 0) = 0
  <1>1. /\ Kind(p, op) \in SUBSET Nat /\ 0 \notin Kind(p, op)
        /\ Asking(p, op) \in SUBSET Nat /\ 0 \notin Asking(p, op)
    BY ProgramFacts
  <1> QED BY <1>1, RankFacts

(***************************************************************************)
(* What a step of the server changes.                                      *)
(***************************************************************************)
SameDownloads == SameStreams(down, down') /\ \A d \in DOMAIN down : SameReceiver(down, down', d)

DownloadsGo ==
  \/ SameDownloads
  \/ OpenDownload /\ Grown(down, down', CurrentId, CurrentStep.size)

LEMMA UntouchedDown ==
  ASSUME Shape, StreamsWhole, down' = down, conn' = conn PROVE DownP!AllWhole' /\ SameDownloads
  BY DEF StreamsWhole, DownP!AllWhole, DownP!Whole, SameDownloads, SameStreams, SameReceiver

LEMMA UntouchedUp ==
  ASSUME Shape, StreamsWhole, up' = up, conn' = conn
  PROVE  UpP!AllWhole' /\ SameStreams(up, up') /\ \A m \in DOMAIN up : SameReceiver(up, up', m)
  BY DEF StreamsWhole, UpP!AllWhole, UpP!Whole, SameStreams, SameReceiver

LEMMA ServerChanges ==
  ASSUME Shape, StreamsWhole, ServerNext \/ DownloadSourceAnswers,
         \A k \in DOMAIN reqLog : Receivable(reqLog[k])
  PROVE  /\ conn' = conn /\ UNCHANGED cvars
         /\ StreamsWhole'
         /\ SameStreams(up, up')
         /\ DownloadsGo
  <1>1. CASE \/ Accept \/ AcceptFails \/ ReceiveRequest \/ ReceiveFails \/ SendResponse
             \/ HandlerOk \/ HandlerErr \/ WaitForClose
    <2>1. UNCHANGED <<conn, down, up>> /\ UNCHANGED cvars
      BY <1>1 DEF Accept, AcceptFails, ReceiveRequest, ReceiveFails, SendResponse, HandlerOk,
                  HandlerErr, WaitForClose, LeaveLoop, DropConnection
    <2> QED BY <2>1, UntouchedDown, UntouchedUp DEF StreamsWhole, DownloadsGo
  <1>2. ~RejectRequest
    BY DEF RejectRequest, Shape
  <1>3. CASE OpenDownload
    <2>1. CurrentStep.size \in 0..MaxChunks /\ CurrentId \in ReqIds
      BY <1>3, CurrentStepIsHandlerStep DEF OpenDownload, HandlerStep
    <2>2. conn' = conn /\ DownP!AllWhole' /\ Grown(down, down', CurrentId, CurrentStep.size)
      BY <1>3, <2>1, DownOpensWhole DEF OpenDownload, StreamsWhole
    <2> QED BY <1>3, <2>2, UntouchedUp DEF OpenDownload, StreamsWhole, DownloadsGo
  <1>4. CASE StreamDownload \/ DownloadSourceAnswers \/ FinishDownload \/ DownloadErr
    <2>1. Len(down) \in DOMAIN down
      BY <1>4 DEF StreamDownload, DownloadSourceAnswers, FinishDownload, DownloadErr,
                  Shape, DownP!StreamsOK
    <2>2. conn' = conn /\ DownP!AllWhole' /\ SameDownloads
      BY <1>4, <2>1, DownSendsWhole DEF StreamDownload, DownloadSourceAnswers, FinishDownload,
                                        DownloadErr, StreamsWhole, SameDownloads
    <2> QED BY <1>4, <2>2, UntouchedUp DEF StreamDownload, DownloadSourceAnswers, FinishDownload,
                                           DownloadErr, StreamsWhole, DownloadsGo
  <1>5. CASE AcceptUpload \/ PullUpload \/ FinishUpload \/ UploadErr
    <2>1. conn' = conn /\ UpP!AllWhole' /\ SameStreams(up, up')
      BY <1>5, UpReceivesWhole DEF AcceptUpload, PullUpload, FinishUpload, UploadErr, StreamsWhole
    <2> QED BY <1>5, <2>1, UntouchedDown
            DEF AcceptUpload, PullUpload, FinishUpload, UploadErr, StreamsWhole, DownloadsGo
  <1> QED BY <1>1, <1>2, <1>3, <1>4, <1>5 DEF ServerNext, HandlerNext

(***************************************************************************)
(* The client's place does not depend on such a step.                      *)
(***************************************************************************)
LEMMA ServerKeepsClient ==
  ASSUME Shape, UNCHANGED cvars, UNCHANGED pvars, SameStreams(up, up'), DownloadsGo,
         NEW p \in Programs, NEW n \in 0..Len(p), ClientAt(p, n)
  PROVE  ClientAt(p, n)'
  <1> DEFINE drained == Rank(Kind(p, "drain"), n)
             handed  == Rank(Kind(p, "read_data"), n)
  <1>0. n \in Nat /\ drained \in Nat /\ handed \in Nat
    <2>1. n \in Nat
      BY ProgramFacts
    <2> QED BY <2>1, CallRank
  <1>1. /\ drained <= handed /\ handed <= Len(down)
        /\ cpc = "accepting" => handed + 1 <= Len(down)
        /\ \A d \in DOMAIN down : down[d].rx = ReceiverState(d, drained, handed)
    BY DEF ClientAt, DownloadsTaken
  <1>2. Len(down) \in Nat /\ DOMAIN down = 1..Len(down) /\ cpc' = cpc
    BY DEF Shape, DownP!StreamsOK, cvars
  <1> HIDE DEF drained, handed
  <1>3. /\ Len(down') \in Nat /\ Len(down') >= Len(down)
        /\ \A d \in DOMAIN down' : \/ d \in DOMAIN down /\ down'[d].rx = down[d].rx
                                   \/ d = Len(down) + 1 /\ down'[d].rx = "unaccepted"
    BY <1>2 DEF DownloadsGo, SameDownloads, SameStreams, SameReceiver, Grown
  <1>4. \A d \in DOMAIN down' : down'[d].rx = ReceiverState(d, drained, handed)'
    BY <1>0, <1>1, <1>2, <1>3 DEF ReceiverState
  <1>5. DownloadsTaken(p, n)'
    BY <1>0, <1>1, <1>2, <1>3, <1>4 DEF DownloadsTaken, drained, handed
  <1> QED BY <1>5 DEF ClientAt, cvars, pvars, SameStreams
-------------------------------------------------------------------------------
(***************************************************************************)
(* The server's place. While a handler runs, its request is that of call q *)
(* and the ranks of q are those in front of it and its own.                *)
(***************************************************************************)
LEMMA BusyFacts ==
  ASSUME Shape, NEW p \in Programs, Asked(p), NEW q \in 0..Len(p), ServerAt(p, q), Busy
  PROVE  /\ q \in Kind(p, "send") /\ q - 1 \in Nat
         /\ step \in Nat /\ Servable(reqLog[reqRead]) /\ reqLog[reqRead] = p[q].frame
         /\ \A op : /\ Rank(Asking(p, op), q - 1) \in Nat
                    /\ q \in Asking(p, op) <=> Steps(reqLog[reqRead], op) # {}
                    /\ Rank(Asking(p, op), q) = Rank(Asking(p, op), q - 1)
                                                + (IF q \in Asking(p, op) THEN 1 ELSE 0)
  <1>1. q \in Kind(p, "send") /\ reqLog[reqRead] = p[q].frame
    BY DEF ServerAt
  <1>2. reqRead \in DOMAIN reqLog /\ step \in Nat
    BY DEF Shape
  <1>3. q \in DOMAIN p
    BY <1>1, ProgramFacts
  <1>4. q - 1 \in Nat /\ (q - 1) + 1 = q
    BY <1>3, ProgramFacts
  <1>5. Servable(reqLog[reqRead])
    BY <1>2, AskedServable
  <1>6. \A op : q \in Asking(p, op) <=> Steps(reqLog[reqRead], op) # {}
    BY <1>1 DEF Asking
  <1>7. \A op : /\ Rank(Asking(p, op), q - 1) \in Nat
               /\ Rank(Asking(p, op), q) = Rank(Asking(p, op), q - 1)
                                           + (IF q \in Asking(p, op) THEN 1 ELSE 0)
    BY <1>4, CallRank
  <1> QED BY <1>1, <1>2, <1>4, <1>5, <1>6, <1>7

(***************************************************************************)
(* A handler that completes the step of kind o has passed o and nothing    *)
(* else more than before.                                                  *)
(***************************************************************************)
LEMMA StepPassed ==
  ASSUME Servable(reqLog[reqRead]), step \in Nat, UNCHANGED <<reqLog, reqRead>>, step' = step + 1,
         NEW o, step + 1 \in Steps(reqLog[reqRead], o)
  PROVE  /\ ~Passed(o) /\ Passed(o)'
         /\ \A op : op # o => (Passed(op)' <=> Passed(op))
  <1> DEFINE f == reqLog[reqRead]
  <1>1. \A op : \A t \in Steps(f, op) :
           /\ t \in Nat /\ t \in DOMAIN ScriptOf(f) /\ ScriptOf(f)[t].op = op
    <2>1. ScriptOf(f) \in Seq(HandlerStep)
      BY DispatchIsHandler DEF ScriptOf
    <2> QED BY <2>1 DEF Steps
  <1>2. \A t \in Steps(f, o) : t = step + 1
    BY <1>1 DEF Servable
  <1>3. ~Passed(o)
    BY <1>2 DEF Passed
  <1>4. f' = f /\ \A op : Steps(f, op)' = Steps(f, op)
    OBVIOUS
  <1>5. Passed(o)'
    BY <1>4 DEF Passed
  <1>6. ASSUME NEW op, op # o PROVE Passed(op)' <=> Passed(op)
    <2>1. step + 1 \notin Steps(f, op)
      BY <1>1, <1>6
    <2>2. \A t \in Steps(f, op) : t <= step + 1 <=> t <= step
      BY <1>1, <2>1
    <2> QED BY <1>4, <2>2 DEF Passed
  <1> QED BY <1>3, <1>5, <1>6

LEMMA AtAStep ==
  ASSUME Shape, NEW op, StepIs(op) \/ AtStep(reqRead, op)
  PROVE  step + 1 \in Steps(reqLog[reqRead], op)
  BY CurrentStepIsHandlerStep DEF AtStep, CurrentStep, Steps, Script, ScriptOf

LEMMA BusyDone ==
  ASSUME Shape, NEW p \in Programs, Asked(p), NEW q \in 0..Len(p), ServerAt(p, q), Busy, Busy',
         NEW op
  PROVE  /\ Done(p, op, q) \in Nat
         /\ (Begun(op)' <=> Begun(op)) => Done(p, op, q)' = Done(p, op, q)
         /\ ~Begun(op) /\ Begun(op)' => Done(p, op, q)' = Done(p, op, q) + 1
  BY BusyFacts DEF Done

(***************************************************************************)
(* The steps of a running handler leave the server at its call.            *)
(***************************************************************************)
LEMMA RespondStays ==
  ASSUME Shape, NEW p \in Programs, Asked(p), NEW q \in 0..Len(p), ServerAt(p, q), SendResponse
  PROVE  /\ ServerAt(p, q)'
         /\ Len(rspLog) + 1 = reqRead
  <1>1. /\ StepIs("respond") /\ spc = "handling" /\ step' = step + 1
        /\ UNCHANGED <<conn, cpc, reqLog, rspRead, spc, reqRead, down, up>>
        /\ Len(rspLog') = Len(rspLog) + 1
    BY DEF SendResponse, StepIs, cvars, Shape
  <1>2. Busy /\ Busy'
    BY <1>1 DEF Busy
  <1>3. /\ Servable(reqLog[reqRead]) /\ step \in Nat /\ q \in Kind(p, "send") /\ q - 1 \in Nat
        /\ Rank(Asking(p, "respond"), q) = Rank(Asking(p, "respond"), q - 1)
                                            + (IF q \in Asking(p, "respond") THEN 1 ELSE 0)
        /\ Rank(Asking(p, "respond"), q - 1) \in Nat
    BY <1>2, BusyFacts
  <1>4. /\ ~Passed("respond") /\ Passed("respond")'
        /\ \A op : op # "respond" => (Passed(op)' <=> Passed(op))
    BY <1>1, <1>3, AtAStep, StepPassed
  <1>5. /\ ~Begun("respond") /\ Begun("respond")'
        /\ \A op : op # "respond" => (Begun(op)' <=> Begun(op))
    BY <1>1, <1>4 DEF Begun
  <1>6. /\ Done(p, "respond", q)' = Done(p, "respond", q) + 1
        /\ Done(p, "send_data", q)' = Done(p, "send_data", q)
        /\ Done(p, "read_data", q)' = Done(p, "read_data", q)
    BY <1>2, <1>5, BusyDone
  <1>7. ServerAt(p, q)'
    BY <1>1, <1>2, <1>6 DEF ServerAt, UploadsTaken
  <1>8. Len(rspLog) + 1 = reqRead
    <2>1. Done(p, "respond", q) = Rank(Asking(p, "respond"), q - 1)
      BY <1>2, <1>3, <1>5 DEF Done
    <2>2. Rank(Asking(p, "respond"), q) = reqRead /\ q \in Asking(p, "respond")
      BY <1>3, ProgramFacts DEF ServerAt
    <2> QED BY <1>3, <2>1, <2>2 DEF ServerAt
  <1> QED BY <1>7, <1>8

LEMMA OpenStays ==
  ASSUME Shape, StreamsWhole, NEW p \in Programs, Asked(p), NEW q \in 0..Len(p),
         ServerAt(p, q), OpenDownload, Grown(down, down', CurrentId, CurrentStep.size)
  PROVE  /\ ServerAt(p, q)'
         /\ q \in Asking(p, "send_data") /\ Rank(Asking(p, "send_data"), q) = Len(down')
         /\ CurrentId = p[q].frame.id
         /\ \E s \in Steps(p[q].frame, "send_data") :
              CurrentStep.size = ScriptOf(p[q].frame)[s].size
  <1>1. /\ StepIs("send_data") /\ spc = "handling" /\ spc' = "streaming"
        /\ UNCHANGED <<cpc, reqLog, rspRead, step, reqRead, rspLog, up>>
        /\ Len(down') = Len(down) + 1
    BY DEF OpenDownload, StepIs, cvars, Grown
  <1>2. Busy /\ Busy'
    BY <1>1 DEF Busy
  <1>3. /\ Servable(reqLog[reqRead]) /\ step \in Nat /\ q \in Kind(p, "send") /\ q - 1 \in Nat
        /\ reqLog[reqRead] = p[q].frame
        /\ Rank(Asking(p, "send_data"), q) = Rank(Asking(p, "send_data"), q - 1)
                                            + (IF q \in Asking(p, "send_data") THEN 1 ELSE 0)
        /\ q \in Asking(p, "send_data") <=> Steps(reqLog[reqRead], "send_data") # {}
        /\ Rank(Asking(p, "send_data"), q - 1) \in Nat
    BY <1>2, BusyFacts
  <1>4. step + 1 \in Steps(reqLog[reqRead], "send_data")
    BY <1>1, AtAStep
  <1>5. ~Passed("send_data") /\ \A op : Passed(op)' <=> Passed(op)
    <2>1. ScriptOf(reqLog[reqRead]) \in Seq(HandlerStep)
      BY DispatchIsHandler DEF ScriptOf
    <2>2. \A s \in Steps(reqLog[reqRead], "send_data") : s = step + 1
      BY <1>3, <1>4 DEF Servable, Steps
    <2> QED BY <1>1, <1>3, <2>2 DEF Passed
  <1>6. /\ ~Begun("send_data") /\ Begun("send_data")'
        /\ \A op : op # "send_data" => (Begun(op)' <=> Begun(op))
    BY <1>1, <1>5 DEF Begun
  <1>7. /\ Done(p, "send_data", q)' = Done(p, "send_data", q) + 1
        /\ Done(p, "respond", q)' = Done(p, "respond", q)
        /\ Done(p, "read_data", q)' = Done(p, "read_data", q)
    BY <1>2, <1>6, BusyDone
  <1>8. ServerAt(p, q)'
    BY <1>1, <1>2, <1>7 DEF ServerAt, UploadsTaken
  <1>9. q \in Asking(p, "send_data") /\ Rank(Asking(p, "send_data"), q) = Len(down')
    <2>1. Done(p, "send_data", q) = Rank(Asking(p, "send_data"), q - 1)
      BY <1>2, <1>3, <1>6 DEF Done
    <2>2. q \in Asking(p, "send_data")
      BY <1>3, <1>4
    <2> QED BY <1>1, <1>3, <2>1, <2>2 DEF ServerAt
  <1>10. /\ CurrentId = p[q].frame.id
         /\ CurrentStep.size = ScriptOf(p[q].frame)[step + 1].size
    BY <1>3 DEF CurrentId, CurrentStep, Script, ScriptOf
  <1> QED BY <1>3, <1>4, <1>8, <1>9, <1>10

LEMMA StreamStays ==
  ASSUME Correlated, NEW p \in Programs, Asked(p), NEW q \in 0..Len(p), ServerAt(p, q),
         StreamDownload \/ DownloadSourceAnswers \/ FinishDownload, SameDownloads
  PROVE  ServerAt(p, q)'
  <1>0. Shape /\ Served
    BY DEF Correlated
  <1>1. /\ spc = "streaming" /\ UNCHANGED <<cpc, reqLog, rspRead, reqRead, rspLog, up>>
        /\ Len(down') = Len(down)
        /\ StreamDownload \/ DownloadSourceAnswers => step' = step /\ spc' = "streaming"
        /\ FinishDownload => step' = step + 1 /\ spc' = "handling"
    BY DEF StreamDownload, DownloadSourceAnswers, FinishDownload, cvars, svars, SameDownloads,
           SameStreams
  <1>2. Busy /\ Busy'
    BY <1>1 DEF Busy
  <1>3. Servable(reqLog[reqRead]) /\ step \in Nat
    BY <1>0, <1>2, BusyFacts
  <1>4. step + 1 \in Steps(reqLog[reqRead], "send_data")
    <2>1. reqRead \in 1..reqRead
      BY <1>0, <1>2 DEF Shape
    <2> QED BY <1>0, <1>1, <1>2, <2>1, AtAStep DEF Served
  <1>5. \A op : Begun(op)' <=> Begun(op)
    <2>1. CASE StreamDownload \/ DownloadSourceAnswers
      BY <1>1, <2>1 DEF Begun, Passed
    <2>2. CASE FinishDownload
      <3>1. Passed("send_data")' /\ \A op : op # "send_data" => (Passed(op)' <=> Passed(op))
        BY <1>1, <1>3, <1>4, <2>2, StepPassed
      <3> QED BY <1>1, <2>2, <3>1 DEF Begun
    <2> QED BY <2>1, <2>2
  <1>6. \A op : Done(p, op, q)' = Done(p, op, q)
    BY <1>0, <1>2, <1>5, BusyDone
  <1> QED BY <1>1, <1>2, <1>6 DEF ServerAt, UploadsTaken

(***************************************************************************)
(* The next stream that accept_uni() hands to a handler is the next one in *)
(* order: all before it were taken by the handlers that ran before.        *)
(***************************************************************************)
LEMMA AcceptStays ==
  ASSUME Shape, StreamsWhole, NEW p \in Programs, Asked(p), NEW q \in 0..Len(p),
         ServerAt(p, q), AcceptUpload
  PROVE  ServerAt(p, q)'
  <1>1. /\ StepIs("read_data") /\ spc = "handling" /\ spc' = "pulling"
        /\ UNCHANGED <<cpc, reqLog, rspRead, step, reqRead, rspLog, down>>
    BY DEF AcceptUpload, StepIs, cvars
  <1>2. Busy /\ Busy'
    BY <1>1 DEF Busy
  <1>3. Servable(reqLog[reqRead]) /\ step \in Nat
    BY <1>2, BusyFacts
  <1>4. step + 1 \in Steps(reqLog[reqRead], "read_data")
    BY <1>1, AtAStep
  <1>5. ~Passed("read_data") /\ \A op : Passed(op)' <=> Passed(op)
    <2>1. \A s \in Steps(reqLog[reqRead], "read_data") : s = step + 1
      BY <1>3, <1>4 DEF Servable, Steps
    <2> QED BY <1>1, <1>3, <2>1 DEF Passed
  <1>6. /\ ~Begun("read_data") /\ Begun("read_data")'
        /\ \A op : op # "read_data" => (Begun(op)' <=> Begun(op))
    BY <1>1, <1>5 DEF Begun
  <1> DEFINE taken == Done(p, "read_data", q)
  <1>7. /\ taken' = taken + 1 /\ taken \in Nat
        /\ Done(p, "respond", q)' = Done(p, "respond", q)
        /\ Done(p, "send_data", q)' = Done(p, "send_data", q)
    BY <1>2, <1>6, BusyDone
  <1>8. PICK i \in DOMAIN up : Up!AcceptUni(i)
    BY DEF AcceptUpload
  <1>9. /\ DOMAIN up' = DOMAIN up /\ Len(up') = Len(up)
        /\ \A m \in DOMAIN up : m # i => up'[m].rx = up[m].rx
    BY <1>8, UpReceivesWhole DEF StreamsWhole, SameStreams, SameReceiver
  <1>10. /\ up'[i].rx = "accepted" /\ up[i].rx = "unaccepted"
         /\ DOMAIN up = 1..Len(up) /\ Len(up) \in Nat
    BY <1>8, UpReceiver DEF Shape, UpP!StreamsOK
  <1>11. \A j \in 1..(i - 1) : up[j].rx # "unaccepted"
    BY <1>8 DEF Up!AcceptUni
  <1>12. /\ taken <= Len(up)
         /\ \A m \in DOMAIN up : up[m].rx = "unaccepted" <=> m > taken
         /\ \A m \in DOMAIN up : up[m].rx \notin {"accepted", "live"}
    BY <1>1 DEF ServerAt, UploadsTaken
  <1> HIDE DEF taken
  <1>13. i = taken + 1
    <2>1. i > taken
      BY <1>10, <1>12
    <2>2. CASE i - 1 >= 1
      <3>1. i - 1 \in DOMAIN up /\ i - 1 \in 1..(i - 1)
        BY <1>10, <2>2
      <3>2. ~(i - 1 > taken)
        BY <1>11, <1>12, <3>1
      <3> QED BY <1>7, <1>10, <2>1, <3>2
    <2>3. CASE ~(i - 1 >= 1)
      BY <1>7, <1>10, <2>1, <2>3
    <2> QED BY <2>2, <2>3
  <1>14. UploadsTaken(p, q)'
    <2>1. taken + 1 <= Len(up')
      BY <1>9, <1>10, <1>13
    <2>2. \A m \in DOMAIN up' : up'[m].rx = "unaccepted" <=> m > taken + 1
      BY <1>7, <1>9, <1>10, <1>12, <1>13
    <2>3. \A m \in DOMAIN up' : up'[m].rx \in {"accepted", "live"} => m = taken + 1
      BY <1>9, <1>12, <1>13
    <2> QED BY <1>1, <1>7, <2>1, <2>2, <2>3 DEF UploadsTaken, taken
  <1> QED BY <1>1, <1>2, <1>7, <1>14 DEF ServerAt

LEMMA PullStays ==
  ASSUME Correlated, StreamsWhole, NEW p \in Programs, Asked(p), NEW q \in 0..Len(p),
         ServerAt(p, q), PullUpload \/ FinishUpload
  PROVE  ServerAt(p, q)'
  <1>0. Shape /\ Served
    BY DEF Correlated
  <1>1. /\ spc = "pulling" /\ UNCHANGED <<cpc, reqLog, rspRead, reqRead, rspLog, down>>
        /\ PullUpload => step' = step /\ spc' = "pulling"
        /\ FinishUpload => step' = step + 1 /\ spc' = "handling"
    BY DEF PullUpload, FinishUpload, cvars, svars
  <1>2. Busy /\ Busy'
    BY <1>1 DEF Busy
  <1>3. Servable(reqLog[reqRead]) /\ step \in Nat
    BY <1>0, <1>2, BusyFacts
  <1>4. step + 1 \in Steps(reqLog[reqRead], "read_data")
    <2>1. reqRead \in 1..reqRead
      BY <1>0, <1>2 DEF Shape
    <2> QED BY <1>0, <1>1, <1>2, <2>1, AtAStep DEF Served
  <1>5. \A op : Begun(op)' <=> Begun(op)
    <2>1. CASE PullUpload
      BY <1>1, <2>1 DEF Begun, Passed
    <2>2. CASE FinishUpload
      <3>1. Passed("read_data")' /\ \A op : op # "read_data" => (Passed(op)' <=> Passed(op))
        BY <1>1, <1>3, <1>4, <2>2, StepPassed
      <3> QED BY <1>1, <2>2, <3>1 DEF Begun
    <2> QED BY <2>1, <2>2
  <1>6. \A op : Done(p, op, q)' = Done(p, op, q)
    BY <1>0, <1>2, <1>5, BusyDone
  <1>7. PICK i \in DOMAIN up : /\ PullUpload => Up!ReadPreamble(i) \/ Up!ReadChunk(i)
                               /\ FinishUpload => Up!ReadEof(i)
    BY <1>1 DEF PullUpload, FinishUpload
  <1>8. /\ DOMAIN up' = DOMAIN up /\ Len(up') = Len(up)
        /\ \A m \in DOMAIN up : m # i => up'[m].rx = up[m].rx
    BY <1>0, <1>7, UpReceivesWhole DEF StreamsWhole, SameStreams, SameReceiver
  <1>9. /\ up[i].rx \in {"accepted", "live"}
        /\ PullUpload => up'[i].rx = "live"
        /\ FinishUpload => up'[i].rx = "eof"
    BY <1>0, <1>7, UpReceiver
  <1>10. UploadsTaken(p, q)'
    BY <1>1, <1>6, <1>8, <1>9 DEF ServerAt, UploadsTaken
  <1> QED BY <1>1, <1>2, <1>6, <1>10 DEF ServerAt

(***************************************************************************)
(* A handler that returns has begun every step it has; the next request is *)
(* that of the next sending call.                                          *)
(***************************************************************************)
LEMMA HandlerStays ==
  ASSUME Shape, NEW p \in Programs, Asked(p), NEW q \in 0..Len(p), ServerAt(p, q), HandlerOk
  PROVE  ServerAt(p, q)'
  <1>1. /\ spc = "handling" /\ spc' = "receiving" /\ step = Len(Script(reqRead))
        /\ UNCHANGED <<cpc, reqLog, rspRead, reqRead, rspLog, down, up>>
    BY DEF HandlerOk, cvars
  <1>2. Busy /\ ~Busy'
    BY <1>1 DEF Busy
  <1>3. \A op : Begun(op) <=> Steps(reqLog[reqRead], op) # {}
    <2>1. Script(reqRead) \in Seq(HandlerStep) /\ Script(reqRead) = ScriptOf(reqLog[reqRead])
      BY DispatchIsHandler DEF Script, ScriptOf
    <2>2. \A op : \A s \in Steps(reqLog[reqRead], op) : s <= step
      BY <1>1, <2>1 DEF Steps
    <2> QED BY <1>1, <2>2 DEF Begun, Passed
  <1>4. \A op : Done(p, op, q)' = Done(p, op, q)
    BY <1>2, <1>3, BusyFacts DEF Done
  <1>5. UploadsTaken(p, q)'
    BY <1>1, <1>4 DEF ServerAt, UploadsTaken
  <1> QED BY <1>1, <1>2, <1>4, <1>5 DEF ServerAt

LEMMA AcceptKeeps ==
  ASSUME NEW p \in Programs, NEW q \in 0..Len(p), ServerAt(p, q), Accept
  PROVE  ServerAt(p, q)'
  <1>1. /\ spc = "accepting" /\ spc' = "receiving"
        /\ UNCHANGED <<cpc, reqLog, rspRead, step, reqRead, rspLog, down, up>>
    BY DEF Accept, cvars
  <1>2. ~Busy /\ ~Busy'
    BY <1>1 DEF Busy
  <1>3. \A op : Done(p, op, q)' = Done(p, op, q)
    BY <1>2 DEF Done
  <1>4. UploadsTaken(p, q)'
    BY <1>1, <1>3 DEF ServerAt, UploadsTaken
  <1> QED BY <1>1, <1>2, <1>3, <1>4 DEF ServerAt

LEMMA ReceiveGoesOn ==
  ASSUME Shape, NEW p \in Programs, Asked(p), NEW q \in 0..Len(p), ServerAt(p, q), ReceiveRequest
  PROVE  \E r \in 0..Len(p) : ServerAt(p, r)'
  <1>1. /\ spc = "receiving" /\ spc' = "handling" /\ reqRead' = reqRead + 1 /\ step' = 0
        /\ UNCHANGED <<cpc, reqLog, rspRead, rspLog, down, up>>
        /\ reqRead + 1 \in DOMAIN reqLog /\ reqRead \in Nat
    BY DEF ReceiveRequest, cvars, Shape
  <1>2. ~Busy /\ Busy'
    BY <1>1 DEF Busy
  <1>3. PICK r \in Kind(p, "send") :
          Rank(Kind(p, "send"), r) = reqRead + 1 /\ reqLog[reqRead + 1] = p[r].frame
    BY <1>1 DEF Asked
  <1>4. r \in 0..Len(p) /\ r - 1 \in Nat /\ q \in Nat
    BY ProgramFacts
  <1>5. \A op : Rank(Asking(p, op), r - 1) = Rank(Asking(p, op), q)
    <2>0. PICK m \in Nat : m = r - 1 /\ m + 1 = r
      BY <1>4, ProgramFacts
    <2>1. Rank(Kind(p, "send"), r) = Rank(Kind(p, "send"), m) + 1 /\ Rank(Kind(p, "send"), m) \in Nat
      BY <2>0, CallRank
    <2>2. Rank(Kind(p, "send"), r - 1) = Rank(Kind(p, "send"), q)
      BY <1>1, <1>3, <2>0, <2>1 DEF ServerAt
    <2> QED BY <1>4, <2>2, ProgramFacts, RankInSubset
  <1>6. \A op : Rank(Asking(p, op), q) \in Nat
    BY <1>4, CallRank
  <1>7. ~Begun("respond")' /\ ~Begun("send_data")' /\ ~Begun("read_data")'
    <2>1. ScriptOf(reqLog[reqRead + 1]) \in Seq(HandlerStep)
      BY DispatchIsHandler DEF ScriptOf
    <2>2. \A op : \A s \in Steps(reqLog[reqRead + 1], op) : ~(s <= 0)
      BY <2>1 DEF Steps
    <2> QED BY <1>1, <2>2 DEF Begun, Passed
  <1>8. \A op \in {"respond", "send_data", "read_data"} : Done(p, op, r)' = Done(p, op, q)
    BY <1>2, <1>5, <1>6, <1>7 DEF Done
  <1>9. UploadsTaken(p, r)'
    BY <1>1, <1>8 DEF ServerAt, UploadsTaken
  <1>10. ServerAt(p, r)'
    BY <1>1, <1>2, <1>3, <1>8, <1>9 DEF ServerAt
  <1> QED BY <1>4, <1>10

(***************************************************************************)
(* Every step of the server on an open connection leaves it at its call,   *)
(* or takes it to the next one: with servable requests and callers that do *)
(* not give up, nothing fails.                                             *)
(***************************************************************************)
LEMMA NothingFails ==
  ASSUME Shape, StreamsWhole, conn = "open", NEW p \in Programs, Asked(p),
         NEW q \in 0..Len(p), ServerAt(p, q)
  PROVE  /\ ~AcceptFails /\ ~ReceiveFails /\ ~WaitForClose /\ ~RejectRequest
         /\ ~HandlerErr /\ ~DownloadErr /\ ~UploadErr
  <1>1. ~AcceptFails /\ ~ReceiveFails /\ ~WaitForClose
    BY DEF AcceptFails, ReceiveFails, WaitForClose
  <1>2. ~RejectRequest
    BY AskedServable DEF RejectRequest, Shape
  <1>3. ~HandlerErr
    <2> SUFFICES ASSUME StepIs("fail") PROVE FALSE
      BY DEF HandlerErr
    <2>1. step + 1 \in Steps(reqLog[reqRead], "fail")
      BY AtAStep
    <2>2. Busy
      BY DEF StepIs, Busy
    <2>3. Servable(reqLog[reqRead])
      BY <2>2, BusyFacts
    <2> QED BY <2>1, <2>3 DEF Servable
  <1>4. ~DownloadErr
    <2> SUFFICES ASSUME DownloadErr PROVE FALSE
      OBVIOUS
    <2>1. Len(down) \in DOMAIN down
      BY DEF DownloadErr, Shape, DownP!StreamsOK
    <2> QED BY <2>1, DownSendsWhole DEF DownloadErr, StreamsWhole
  <1>5. ~UploadErr
    BY UpReceivesWhole, UpReceiver DEF UploadErr, StreamsWhole
  <1> QED BY <1>1, <1>2, <1>3, <1>4, <1>5

LEMMA ServerGoesOn ==
  ASSUME Correlated, StreamsWhole, conn = "open", NEW p \in Programs, Asked(p),
         NEW q \in 0..Len(p), ServerAt(p, q), ServerNext \/ DownloadSourceAnswers
  PROVE  \E r \in 0..Len(p) : ServerAt(p, r)'
  <1>0. Shape
    BY DEF Correlated
  <1>1. DownloadsGo
    BY <1>0, AskedServable, ServerChanges
  <1>2. CASE OpenDownload
    <2>1. ~SameDownloads
      <3>1. Len(down') = Len(down) + 1 /\ Len(down) \in Nat
        BY <1>0, <1>2 DEF OpenDownload, Down!OpenUni, Shape, DownP!StreamsOK
      <3> QED BY <3>1 DEF SameDownloads, SameStreams
    <2>2. Grown(down, down', CurrentId, CurrentStep.size)
      BY <1>1, <2>1 DEF DownloadsGo
    <2> QED BY <1>0, <1>2, <2>2, OpenStays
  <1>3. CASE StreamDownload \/ DownloadSourceAnswers \/ FinishDownload
    <2>1. ~OpenDownload
      BY <1>3 DEF StreamDownload, DownloadSourceAnswers, FinishDownload, OpenDownload, StepIs
    <2> QED BY <1>1, <1>3, <2>1, StreamStays DEF DownloadsGo
  <1>4. CASE Accept
    BY <1>4, AcceptKeeps
  <1>5. CASE ReceiveRequest
    BY <1>0, <1>5, ReceiveGoesOn
  <1>6. CASE SendResponse
    BY <1>0, <1>6, RespondStays
  <1>7. CASE AcceptUpload
    BY <1>0, <1>7, AcceptStays
  <1>8. CASE PullUpload \/ FinishUpload
    BY <1>8, PullStays
  <1>9. CASE HandlerOk
    BY <1>0, <1>9, HandlerStays
  <1>10. /\ ~AcceptFails /\ ~ReceiveFails /\ ~WaitForClose /\ ~RejectRequest
         /\ ~HandlerErr /\ ~DownloadErr /\ ~UploadErr
    BY <1>0, NothingFails
  <1> QED BY <1>2, <1>3, <1>4, <1>5, <1>6, <1>7, <1>8, <1>9, <1>10 DEF ServerNext, HandlerNext

(***************************************************************************)
(* The steps of the server preserve the invariant.                         *)
(***************************************************************************)
LEMMA ServerTracks ==
  ASSUME Correlated, StreamsWhole, InOrder, Steady, SessionServerNext,
         NEW p \in Programs, NEW n \in 0..Len(p), Tracks(p, n)
  PROVE  StreamsWhole' /\ InOrder' /\ Steady' /\ Tracks(p, n)'
  <1>0. Shape /\ (ServerNext \/ DownloadSourceAnswers) /\ UNCHANGED pvars /\ Asked(p)
    BY DEF Correlated, SessionServerNext, Tracks
  <1>1. /\ conn' = conn /\ UNCHANGED cvars /\ StreamsWhole' /\ SameStreams(up, up') /\ DownloadsGo
    BY <1>0, AskedServable, ServerChanges
  <1>2. Steady'
    BY <1>0, <1>1 DEF Steady, cvars, pvars
  <1>3. ASSUME NEW q \in 0..Len(p), ServerAt(p, q), SendResponse
        PROVE  Len(rspLog) + 1 = reqRead
    BY <1>0, <1>3, RespondStays
  <1>4. InOrder'
    <2>1. CASE SendResponse
      <3>1. PICK q \in 0..Len(p) : ServerAt(p, q)
        BY <2>1 DEF SendResponse, Tracks
      <3>2. Len(rspLog) + 1 = reqRead
        BY <1>3, <2>1, <3>1
      <3>3. rspLog \in Seq(Response)
        BY <1>0 DEF Shape
      <3>4. PICK r : rspLog' = Append(rspLog, r) /\ r.for = reqRead
        BY <2>1 DEF SendResponse
      <3>5. /\ DOMAIN rspLog' = 1..(Len(rspLog) + 1)
            /\ \A k \in DOMAIN rspLog : rspLog'[k] = rspLog[k]
            /\ rspLog'[Len(rspLog) + 1] = r
            /\ DOMAIN rspLog = 1..Len(rspLog) /\ Len(rspLog) \in Nat
        BY <3>3, <3>4
      <3> QED BY <3>2, <3>4, <3>5 DEF InOrder
    <2>2. CASE ~SendResponse
      <3>1. rspLog' = rspLog
        BY <1>0, <2>2
           DEF ServerNext, HandlerNext, Accept, AcceptFails, ReceiveRequest, RejectRequest,
               ReceiveFails, OpenDownload, StreamDownload, DownloadSourceAnswers, FinishDownload,
               AcceptUpload, PullUpload, FinishUpload, HandlerOk, HandlerErr, DownloadErr,
               UploadErr, WaitForClose, svars
      <3> QED BY <3>1 DEF InOrder
    <2> QED BY <2>1, <2>2
  <1>5. Asked(p)'
    BY <1>0, <1>1 DEF Asked, cvars
  <1>6. Offered(p)'
    BY <1>1 DEF Tracks, Offered, SameStreams
  <1>7. Shipped(p)'
    <2>1. CASE SameDownloads
      BY <2>1 DEF SameDownloads, SameStreams, Tracks, Shipped
    <2>2. CASE OpenDownload /\ Grown(down, down', CurrentId, CurrentStep.size)
      <3>1. conn = "open"
        BY <2>2 DEF OpenDownload, Down!OpenUni
      <3>2. PICK q \in 0..Len(p) : ServerAt(p, q)
        BY <3>1 DEF Tracks
      <3>3. /\ q \in Asking(p, "send_data") /\ Rank(Asking(p, "send_data"), q) = Len(down')
            /\ CurrentId = p[q].frame.id
            /\ \E s \in Steps(p[q].frame, "send_data") :
                 CurrentStep.size = ScriptOf(p[q].frame)[s].size
        BY <1>0, <2>2, <3>2, OpenStays
      <3> QED BY <2>2, <3>3 DEF Tracks, Shipped, Grown
    <2> QED BY <1>1, <2>1, <2>2 DEF DownloadsGo
  <1>8. conn' = "open" => \E q \in 0..Len(p) : ServerAt(p, q)'
    BY <1>0, <1>1, ServerGoesOn DEF Tracks
  <1>9. outcome' = "running" /\ todo' # <<>> => ClientAt(p, n)'
    BY <1>0, <1>1, ServerKeepsClient DEF Tracks, pvars
  <1> QED BY <1>1, <1>2, <1>4, <1>5, <1>6, <1>7, <1>8, <1>9 DEF Tracks

-------------------------------------------------------------------------------
(***************************************************************************)
(* A step of the client leaves the server where it is.                     *)
(***************************************************************************)
UploadsGo ==
  \/ SameStreams(up, up') /\ \A m \in DOMAIN up : SameReceiver(up, up', m)
  \/ \E r, n : Grown(up, up', r, n)

LEMMA ClientKeepsServer ==
  ASSUME Shape, UNCHANGED svars, LogGrows, Len(down') = Len(down), UploadsGo,
         NEW p \in Programs, Asked(p), NEW q \in 0..Len(p), ServerAt(p, q)
  PROVE  ServerAt(p, q)'
  <1>1. UNCHANGED <<spc, step, reqRead, rspLog>> /\ (Busy' <=> Busy)
    BY DEF svars, Busy
  <1>2. Busy => reqLog'[reqRead] = reqLog[reqRead]
    BY DEF Shape, LogGrows
  <1>3. \A op : Busy => (Begun(op)' <=> Begun(op))
    BY <1>1, <1>2 DEF Begun, Passed
  <1>4. \A op : Done(p, op, q)' = Done(p, op, q)
    BY <1>1, <1>3 DEF Done
  <1>5. Done(p, "read_data", q) \in Nat
    <2>1. CASE Busy
      BY <2>1, BusyFacts DEF Done
    <2>2. CASE ~Busy
      <3>1. q \in Nat
        BY ProgramFacts
      <3> QED BY <2>2, <3>1, CallRank DEF Done
    <2> QED BY <2>1, <2>2
  <1>6. Len(up) \in Nat /\ DOMAIN up = 1..Len(up)
    BY DEF Shape, UpP!StreamsOK
  <1>7. UploadsTaken(p, q)'
    <2> DEFINE taken == Done(p, "read_data", q)
    <2>1. /\ taken <= Len(up)
          /\ \A m \in DOMAIN up : up[m].rx = "unaccepted" <=> m > taken
          /\ \A m \in DOMAIN up : up[m].rx \in {"accepted", "live"} => spc = "pulling" /\ m = taken
      BY DEF ServerAt, UploadsTaken
    <2>2. /\ Len(up') >= Len(up)
          /\ \A m \in DOMAIN up' : \/ m \in DOMAIN up /\ up'[m].rx = up[m].rx
                                   \/ m = Len(up) + 1 /\ up'[m].rx = "unaccepted"
      BY <1>6 DEF UploadsGo, SameStreams, SameReceiver, Grown
    <2>3. taken' = taken /\ taken \in Nat /\ spc' = spc
      BY <1>1, <1>4, <1>5
    <2> HIDE DEF taken
    <2>4. /\ taken' <= Len(up')
          /\ \A m \in DOMAIN up' : up'[m].rx = "unaccepted" <=> m > taken'
          /\ \A m \in DOMAIN up' : up'[m].rx \in {"accepted", "live"} => spc' = "pulling" /\ m = taken'
      <3>1. Len(up') \in Nat
        BY <1>6 DEF UploadsGo, SameStreams, Grown
      <3> QED BY <1>6, <2>1, <2>2, <2>3, <3>1
    <2> QED BY <2>4 DEF UploadsTaken, taken
  <1> QED BY <1>1, <1>2, <1>4, <1>7 DEF ServerAt

(***************************************************************************)
(* So it tracks the program if it does what the program says.              *)
(***************************************************************************)
LEMMA ClientGoesOn ==
  ASSUME Shape, UNCHANGED svars, LogGrows, SameStreams(down, down'), UploadsGo,
         conn' = "open" => conn = "open",
         NEW p \in Programs, NEW n, Tracks(p, n), Asked(p)', Offered(p)',
         NEW k, outcome' = "running" /\ todo' # <<>> => ClientAt(p, k)'
  PROVE  Tracks(p, k)'
  <1>1. Shipped(p)'
    BY DEF Tracks, Shipped, SameStreams
  <1>2. conn' = "open" => \E q \in 0..Len(p) : ServerAt(p, q)'
    BY ClientKeepsServer DEF Tracks, SameStreams
  <1> QED BY <1>1, <1>2 DEF Tracks

LEMMA Untouched ==
  ASSUME Shape
  PROVE  /\ UNCHANGED reqLog => LogGrows /\ \A p : Asked(p) => Asked(p)'
         /\ UNCHANGED down => SameStreams(down, down')
         /\ UNCHANGED up => UploadsGo
         /\ SameStreams(up, up') => \A p : Offered(p) => Offered(p)'
  <1>1. UNCHANGED reqLog => LogGrows /\ \A p : Asked(p) => Asked(p)'
    BY DEF Shape, LogGrows, Asked
  <1>2. UNCHANGED down => SameStreams(down, down')
    BY DEF SameStreams
  <1>3. UNCHANGED up => UploadsGo
    BY DEF UploadsGo, SameStreams, SameReceiver
  <1>4. SameStreams(up, up') => \A p : Offered(p) => Offered(p)'
    BY DEF SameStreams, Offered
  <1> QED BY <1>1, <1>2, <1>3, <1>4

(***************************************************************************)
(* The call a program is at, and the ranks up to it.                       *)
(***************************************************************************)
LEMMA CallAt ==
  ASSUME NEW p \in Programs, NEW n \in 0..Len(p), Tracks(p, n), NEW o, Calls(o)
  PROVE  /\ ClientAt(p, n)
         /\ n \in Nat /\ n + 1 \in 0..Len(p) /\ n + 1 \in Kind(p, o)
         /\ Head(todo) = p[n + 1] /\ Tail(todo) = After(p, n + 1)
         /\ \A op : n + 1 \in Kind(p, op) <=> op = o
         /\ \A op : /\ Rank(Kind(p, op), n) \in Nat
                    /\ Rank(Kind(p, op), n + 1)
                         = Rank(Kind(p, op), n) + (IF n + 1 \in Kind(p, op) THEN 1 ELSE 0)
  <1>1. ClientAt(p, n) /\ todo = After(p, n) /\ todo # <<>>
    BY DEF Tracks, Calls, ClientAt
  <1>2. n \in Nat /\ p \in Seq(Call)
    BY ProgramFacts
  <1>3. n + 1 \in DOMAIN p /\ Head(todo) = p[n + 1] /\ Tail(todo) = After(p, n + 1)
    BY <1>1, <1>2, AfterFacts
  <1>4. \A op : n + 1 \in Kind(p, op) <=> op = o
    BY <1>3 DEF Calls, Kind
  <1>5. n + 1 \in 0..Len(p)
    BY <1>2, <1>3
  <1> QED BY <1>1, <1>2, <1>3, <1>4, <1>5, CallRank

(***************************************************************************)
(* While calls are made the connection is open or lost.                    *)
(***************************************************************************)
LEMMA OpenOrLost ==
  ASSUME Shape, Steady, outcome = "running"
  PROVE  cpc # "closed" /\ conn \in {"open", "lost"}
  BY DEF Shape, Steady

LEMMA WholeKept ==
  ASSUME Shape, StreamsWhole, UNCHANGED <<down, up>>, conn' = "open" => conn = "open"
  PROVE  StreamsWhole'
  BY DEF StreamsWhole, DownP!AllWhole, DownP!Whole, UpP!AllWhole, UpP!Whole

LEMMA StaysSteady ==
  ASSUME Shape, Steady, outcome = "running", conn' = conn, cpc' # "closed",
         outcome' = "running" \/ (outcome' = "err" /\ conn # "open")
  PROVE  Steady'
  BY OpenOrLost DEF Steady
-------------------------------------------------------------------------------
(***************************************************************************)
(* The calls, one by one. What is sent is the next request; what comes     *)
(* back answers the request of the same number, with a status the program  *)
(* is ready for.                                                           *)
(***************************************************************************)
LEMMA SendsTrack ==
  ASSUME Correlated, StreamsWhole, Steady, ProgramSends,
         NEW p \in Programs, NEW n \in 0..Len(p), Tracks(p, n)
  PROVE  StreamsWhole' /\ Steady' /\ Tracks(p, n + 1)'
  <1>0. Shape /\ Calls("send") /\ SendRequest(Head(todo).frame) /\ outcome = "running"
    BY DEF Correlated, ProgramSends, Calls
  <1>1. /\ ClientAt(p, n) /\ n \in Nat
        /\ n + 1 \in Kind(p, "send") /\ Head(todo) = p[n + 1] /\ Tail(todo) = After(p, n + 1)
        /\ \A op : n + 1 \in Kind(p, op) <=> op = "send"
        /\ \A op : /\ Rank(Kind(p, op), n) \in Nat
                   /\ Rank(Kind(p, op), n + 1)
                        = Rank(Kind(p, op), n) + (IF n + 1 \in Kind(p, op) THEN 1 ELSE 0)
    BY <1>0, CallAt
  <1>2. /\ cpc = "idle" /\ reqLog' = Append(reqLog, p[n + 1].frame)
        /\ UNCHANGED <<conn, cpc, rspRead, down, up>> /\ UNCHANGED svars
    BY <1>0, <1>1 DEF SendRequest
  <1>3. /\ reqLog \in Seq(Requests) /\ Len(reqLog') = Len(reqLog) + 1 /\ Len(reqLog) \in Nat
        /\ \A k \in DOMAIN reqLog : k \in DOMAIN reqLog' /\ reqLog'[k] = reqLog[k]
        /\ \A k \in DOMAIN reqLog' : k \in DOMAIN reqLog \/ k = Len(reqLog')
        /\ reqLog'[Len(reqLog')] = p[n + 1].frame
    BY <1>0, <1>2 DEF Shape
  <1>4. Len(reqLog') = Rank(Kind(p, "send"), n + 1)
    BY <1>1, <1>3 DEF ClientAt
  <1>5. Asked(p)'
    BY <1>1, <1>3, <1>4 DEF Tracks, Asked
  <1>6. LogGrows
    BY <1>3 DEF LogGrows
  <1>7. todo' = After(p, n + 1) /\ outcome' = outcome
    BY <1>1 DEF ProgramSends, Returns
  <1>8. ClientAt(p, n + 1)'
    <2>1. /\ Rank(Kind(p, "drain"), n + 1) = Rank(Kind(p, "drain"), n)
          /\ Rank(Kind(p, "read_data"), n + 1) = Rank(Kind(p, "read_data"), n)
          /\ Rank(Kind(p, "receive"), n + 1) = Rank(Kind(p, "receive"), n)
          /\ Rank(Kind(p, "upload"), n + 1) = Rank(Kind(p, "upload"), n)
      BY <1>1
    <2>2. DownloadsTaken(p, n + 1)'
      BY <1>1, <1>2, <2>1 DEF ClientAt, DownloadsTaken, ReceiverState
    <2> QED BY <1>1, <1>2, <1>4, <1>7, <2>1, <2>2 DEF ClientAt
  <1>9. Offered(p)'
    BY <1>2 DEF Tracks, Offered
  <1>10. Tracks(p, n + 1)'
    BY <1>0, <1>2, <1>5, <1>6, <1>8, <1>9, Untouched, ClientGoesOn
  <1> QED BY <1>0, <1>2, <1>7, <1>10, WholeKept, StaysSteady

LEMMA ExpectedStatus ==
  ASSUME Correlated, InOrder, rspRead < Len(rspLog),
         NEW p \in Programs, Asked(p), NEW j \in Kind(p, "receive"),
         Rank(Kind(p, "receive"), j) = rspRead + 1, p[j].otherwise # "skip"
  PROVE  BxpResponseOf(rspRead + 1).status \in p[j].expect
  <1> DEFINE k == rspRead + 1
  <1>1. k \in DOMAIN rspLog /\ rspLog[k].for = k
    BY DEF Correlated, Shape, InOrder
  <1>2. /\ k \in 1..reqRead
        /\ \E s \in DOMAIN Script(k) : /\ Script(k)[s].op = "respond"
                                       /\ BxpResponseOf(k).status = Script(k)[s].status
    BY <1>1 DEF Correlated, ResponsesMatchRequests, Answers
  <1>3. k \in DOMAIN reqLog
    BY <1>2 DEF Correlated, Shape
  <1>4. PICK i \in Kind(p, "send") : Rank(Kind(p, "send"), i) = k /\ reqLog[k] = p[i].frame
    BY <1>3 DEF Asked
  <1>5. Script(k) = ScriptOf(p[i].frame)
    BY <1>4 DEF Script, ScriptOf
  <1>6. \E s \in Steps(p[i].frame, "respond") :
          BxpResponseOf(k).status = ScriptOf(p[i].frame)[s].status
    BY <1>2, <1>5 DEF Steps
  <1>7. StatusesFit(p)
    BY ProgramFacts DEF Fits
  <1> QED BY <1>4, <1>6, <1>7 DEF StatusesFit

LEMMA ReceivesTrack ==
  ASSUME Correlated, StreamsWhole, InOrder, Steady, ProgramReceives,
         NEW p \in Programs, NEW n \in 0..Len(p), Tracks(p, n)
  PROVE  StreamsWhole' /\ Steady' /\ Tracks(p, n + 1)'
  <1>0. Shape /\ Calls("receive") /\ outcome = "running" /\ Asked(p)
    BY DEF Correlated, ProgramReceives, Calls, Tracks
  <1>1. /\ ClientAt(p, n) /\ n \in Nat
        /\ n + 1 \in Kind(p, "receive") /\ Head(todo) = p[n + 1] /\ Tail(todo) = After(p, n + 1)
        /\ \A op : n + 1 \in Kind(p, op) <=> op = "receive"
        /\ \A op : /\ Rank(Kind(p, op), n) \in Nat
                   /\ Rank(Kind(p, op), n + 1)
                        = Rank(Kind(p, op), n) + (IF n + 1 \in Kind(p, op) THEN 1 ELSE 0)
    BY <1>0, CallAt
  <1>2. /\ cpc = "idle" /\ rspRead < Len(rspLog) /\ rspRead' = rspRead + 1
        /\ UNCHANGED <<conn, cpc, reqLog, down, up>> /\ UNCHANGED svars
    BY DEF ProgramReceives, ReceiveResponse
  <1>3. rspRead' = Rank(Kind(p, "receive"), n + 1)
    BY <1>1, <1>2 DEF ClientAt
  <1>4. \/ p[n + 1].otherwise = "skip"
        \/ BxpResponseOf(rspRead + 1).status \in p[n + 1].expect
    BY <1>0, <1>1, <1>2, <1>3, ExpectedStatus
  <1>5. /\ outcome' = "running"
        /\ todo' # <<>> => todo' = After(p, n + 1)
    BY <1>0, <1>1, <1>4 DEF ProgramReceives, Skips, Asserts, Returns
  <1>6. ASSUME todo' # <<>> PROVE ClientAt(p, n + 1)'
    <2>1. /\ Rank(Kind(p, "drain"), n + 1) = Rank(Kind(p, "drain"), n)
          /\ Rank(Kind(p, "read_data"), n + 1) = Rank(Kind(p, "read_data"), n)
          /\ Rank(Kind(p, "send"), n + 1) = Rank(Kind(p, "send"), n)
          /\ Rank(Kind(p, "upload"), n + 1) = Rank(Kind(p, "upload"), n)
      BY <1>1
    <2>2. DownloadsTaken(p, n + 1)'
      BY <1>1, <1>2, <2>1 DEF ClientAt, DownloadsTaken, ReceiverState
    <2> QED BY <1>1, <1>2, <1>3, <1>5, <1>6, <2>1, <2>2 DEF ClientAt
  <1>7. Asked(p)' /\ Offered(p)'
    BY <1>2 DEF Tracks, Asked, Offered
  <1>8. Tracks(p, n + 1)'
    BY <1>0, <1>2, <1>6, <1>7, Untouched, ClientGoesOn
  <1> QED BY <1>0, <1>2, <1>5, <1>8, WholeKept, StaysSteady

-------------------------------------------------------------------------------
(***************************************************************************)
(* The next stream that accept_uni() hands to the program is the one       *)
(* behind those it was handed before.                                      *)
(***************************************************************************)
LEMMA AcceptsTrack ==
  ASSUME Correlated, StreamsWhole, Steady, ProgramAcceptsStream,
         NEW p \in Programs, NEW n \in 0..Len(p), Tracks(p, n)
  PROVE  StreamsWhole' /\ Steady' /\ Tracks(p, n)'
  <1>0. Shape /\ Calls("read_data") /\ outcome = "running" /\ AcceptDownload /\ UNCHANGED pvars
    BY DEF Correlated, ProgramAcceptsStream, Awaits, Calls
  <1>1. /\ ClientAt(p, n) /\ n + 1 \in Kind(p, "read_data")
        /\ \A op : Rank(Kind(p, op), n) \in Nat
    BY <1>0, CallAt
  <1>2. /\ cpc = "idle" /\ cpc' = "accepting"
        /\ UNCHANGED <<reqLog, rspRead, up>> /\ UNCHANGED svars
    BY <1>0 DEF AcceptDownload
  <1>3. PICK i \in DOMAIN down : Down!AcceptUni(i)
    BY <1>0 DEF AcceptDownload
  <1>4. /\ conn' = conn /\ DownP!AllWhole' /\ SameStreams(down, down')
        /\ \A d \in DOMAIN down : d # i => down'[d].rx = down[d].rx
        /\ down[i].rx = "unaccepted" /\ down'[i].rx = "accepted"
    BY <1>0, <1>3, DownReceivesWhole, DownReceiver DEF StreamsWhole, SameReceiver
  <1>5. Len(down) \in Nat /\ DOMAIN down = 1..Len(down)
    BY <1>0 DEF Shape, DownP!StreamsOK
  <1>6. \A j \in 1..(i - 1) : down[j].rx # "unaccepted"
    BY <1>3 DEF Down!AcceptUni
  <1> DEFINE drained == Rank(Kind(p, "drain"), n)
             handed  == Rank(Kind(p, "read_data"), n)
  <1>7. /\ drained \in Nat /\ handed \in Nat /\ drained <= handed /\ handed <= Len(down)
        /\ \A d \in DOMAIN down : down[d].rx = IF d <= drained THEN "eof"
                                              ELSE IF d <= handed THEN "live" ELSE "unaccepted"
    BY <1>1, <1>2 DEF ClientAt, DownloadsTaken, ReceiverState
  <1>8. drained' = drained /\ handed' = handed
    OBVIOUS
  <1> HIDE DEF drained, handed
  <1>9. i = handed + 1
    <2>1. i > handed
      BY <1>4, <1>5, <1>7
    <2>2. CASE i - 1 >= 1
      <3>1. i - 1 \in DOMAIN down /\ i - 1 \in 1..(i - 1)
        BY <1>5, <2>2
      <3>2. ~(i - 1 > handed)
        BY <1>6, <1>7, <3>1
      <3> QED BY <1>5, <1>7, <2>1, <3>2
    <2>3. CASE ~(i - 1 >= 1)
      BY <1>5, <1>7, <2>1, <2>3
    <2> QED BY <2>2, <2>3
  <1>10. DownloadsTaken(p, n)'
    <2>1. /\ drained' <= handed' /\ handed' <= Len(down') /\ handed' + 1 <= Len(down')
          /\ \A d \in DOMAIN down' : down'[d].rx = ReceiverState(d, drained, handed)'
      BY <1>2, <1>4, <1>5, <1>7, <1>8, <1>9 DEF SameStreams, ReceiverState
    <2> QED BY <1>8, <2>1 DEF DownloadsTaken, drained, handed
  <1>11. ClientAt(p, n)'
    BY <1>0, <1>1, <1>2, <1>10 DEF ClientAt, pvars
  <1>12. UpP!AllWhole'
    BY <1>0, <1>2, <1>4, UntouchedUp
  <1>13. Asked(p)' /\ Offered(p)'
    BY <1>2 DEF Tracks, Asked, Offered
  <1>14. Tracks(p, n)'
    BY <1>0, <1>2, <1>4, <1>11, <1>13, Untouched, ClientGoesOn
  <1> QED BY <1>0, <1>2, <1>4, <1>12, <1>14, StaysSteady DEF StreamsWhole, pvars

(***************************************************************************)
(* Its id is that of the request that asked for it.                        *)
(***************************************************************************)
LEMMA ReadsTrack ==
  ASSUME Correlated, StreamsWhole, Steady, ProgramReadsStream,
         NEW p \in Programs, NEW n \in 0..Len(p), Tracks(p, n)
  PROVE  /\ StreamsWhole' /\ Steady'
         /\ \E k \in 0..Len(p) : Tracks(p, k)'
  <1>0. Shape /\ Calls("read_data") /\ outcome = "running" /\ ReadDataStream
    BY DEF Correlated, ProgramReadsStream, Calls
  <1>1. /\ ClientAt(p, n) /\ n \in Nat /\ n + 1 \in 0..Len(p)
        /\ n + 1 \in Kind(p, "read_data") /\ Head(todo) = p[n + 1] /\ Tail(todo) = After(p, n + 1)
        /\ \A op : n + 1 \in Kind(p, op) <=> op = "read_data"
        /\ \A op : /\ Rank(Kind(p, op), n) \in Nat
                   /\ Rank(Kind(p, op), n + 1)
                        = Rank(Kind(p, op), n) + (IF n + 1 \in Kind(p, op) THEN 1 ELSE 0)
    BY <1>0, CallAt
  <1>2. /\ cpc = "accepting" /\ cpc' = "idle"
        /\ UNCHANGED <<reqLog, rspRead, up>> /\ UNCHANGED svars
    BY <1>0 DEF ReadDataStream
  <1>3. PICK i \in DOMAIN down :
          /\ down[i].rx = "accepted"
          /\ Down!ReadPreamble(i) \/ Down!PreambleMissing(i) \/ Down!ReadFails(i)
    BY <1>0 DEF ReadDataStream
  <1>4. /\ conn' = conn /\ DownP!AllWhole' /\ SameStreams(down, down')
        /\ \A d \in DOMAIN down : d # i => down'[d].rx = down[d].rx
        /\ \/ down'[i].rx = "live"
           \/ down'[i].rx = "dropped" /\ conn # "open"
    BY <1>0, <1>3, DownReceivesWhole, DownReceiver DEF StreamsWhole, SameReceiver
  <1>5. Len(down) \in Nat /\ DOMAIN down = 1..Len(down)
    BY <1>0 DEF Shape, DownP!StreamsOK
  <1> DEFINE drained == Rank(Kind(p, "drain"), n)
             handed  == Rank(Kind(p, "read_data"), n)
  <1>6. /\ drained \in Nat /\ handed \in Nat /\ drained <= handed /\ handed + 1 <= Len(down)
        /\ \A d \in DOMAIN down : down[d].rx = ReceiverState(d, drained, handed)
    BY <1>1, <1>2 DEF ClientAt, DownloadsTaken
  <1>7. \A d \in DOMAIN down : down[d].rx = "accepted" => d = handed + 1
    BY <1>6 DEF ReceiverState
  <1>8. i = handed + 1 /\ i = Rank(Kind(p, "read_data"), n + 1)
    BY <1>1, <1>3, <1>7
  <1>9. down[i].req = p[n + 1].id
    <2>1. PICK a \in Asking(p, "send_data") :
            Rank(Asking(p, "send_data"), a) = i /\ down[i].req = p[a].frame.id
      BY DEF Tracks, Shipped
    <2> QED BY <1>1, <1>8, <2>1, ProgramFacts DEF Fits, DownloadsFit
  <1>10. IF down'[i].rx = "live" THEN Returns ELSE Errs
    BY <1>1, <1>3, <1>7, <1>8, <1>9 DEF ProgramReadsStream, Asserts
  <1>11. outcome' = "running" \/ (outcome' = "err" /\ conn # "open")
    BY <1>0, <1>4, <1>10 DEF Returns, Errs
  <1>12. ASSUME outcome' = "running" PROVE ClientAt(p, n + 1)'
    <2>1. down'[i].rx = "live" /\ todo' = After(p, n + 1)
      BY <1>1, <1>10, <1>12 DEF Errs, Returns
    <2>2. /\ Rank(Kind(p, "drain"), n + 1) = drained
          /\ Rank(Kind(p, "read_data"), n + 1) = handed + 1
          /\ Rank(Kind(p, "send"), n + 1) = Rank(Kind(p, "send"), n)
          /\ Rank(Kind(p, "receive"), n + 1) = Rank(Kind(p, "receive"), n)
          /\ Rank(Kind(p, "upload"), n + 1) = Rank(Kind(p, "upload"), n)
      BY <1>1
    <2>3. DownloadsTaken(p, n + 1)'
      <3> HIDE DEF drained, handed
      <3>1. /\ drained <= handed + 1 /\ handed + 1 <= Len(down')
            /\ \A d \in DOMAIN down' :
                 down'[d].rx = IF d <= drained THEN "eof"
                               ELSE IF d <= handed + 1 THEN "live" ELSE "unaccepted"
        BY <1>2, <1>4, <1>5, <1>6, <1>8, <2>1 DEF SameStreams, ReceiverState
      <3> QED BY <1>2, <2>2, <3>1 DEF DownloadsTaken, ReceiverState
    <2> QED BY <1>1, <1>2, <2>1, <2>2, <2>3 DEF ClientAt
  <1>13. UpP!AllWhole'
    BY <1>0, <1>2, <1>4, UntouchedUp
  <1>14. Asked(p)' /\ Offered(p)'
    BY <1>2 DEF Tracks, Asked, Offered
  <1>15. Tracks(p, n + 1)'
    BY <1>0, <1>2, <1>4, <1>12, <1>14, Untouched, ClientGoesOn
  <1> QED BY <1>0, <1>1, <1>2, <1>4, <1>11, <1>13, <1>15, StaysSteady DEF StreamsWhole

(***************************************************************************)
(* The one stream being read is the newest, and it ends at the length of   *)
(* its source.                                                             *)
(***************************************************************************)
LEMMA ReadPayloadMoves ==
  ASSUME Shape, NEW i \in DOMAIN down, Down!ReadChunk(i) \/ Down!ReadEof(i)
  PROVE  /\ \A d \in DOMAIN down : d # i => down'[d] = down[d]
         /\ Down!ReadEof(i) => down[i].fin /\ down[i].got = down[i].sent
  <1>1. down \in Seq(DownP!Stream)
    BY DEF Shape, DownP!StreamsOK
  <1> QED BY <1>1 DEF Down!ReadChunk, Down!ReadEof

LEMMA DrainedWhole ==
  ASSUME Shape, DownP!AllWhole, NEW i \in DOMAIN down, down[i].fin, down[i].got = down[i].sent
  PROVE  down[i].got = down[i].size
  <1>1. DownP!Coherent(down[i]) /\ DownP!Whole(down[i])
    BY DEF Shape, DownP!StreamsOK, DownP!AllWhole
  <1> QED BY <1>1 DEF DownP!Coherent, DownP!Whole

LEMMA DrainsTrack ==
  ASSUME Correlated, StreamsWhole, Steady, ProgramDrains,
         NEW p \in Programs, NEW n \in 0..Len(p), Tracks(p, n)
  PROVE  /\ StreamsWhole' /\ Steady'
         /\ \E k \in 0..Len(p) : Tracks(p, k)'
  <1>0. Shape /\ Calls("drain") /\ outcome = "running" /\ ReadPayload
    BY DEF Correlated, ProgramDrains, Calls
  <1>1. /\ ClientAt(p, n) /\ n \in Nat /\ n + 1 \in 0..Len(p)
        /\ n + 1 \in Kind(p, "drain") /\ Head(todo) = p[n + 1] /\ Tail(todo) = After(p, n + 1)
        /\ \A op : n + 1 \in Kind(p, op) <=> op = "drain"
        /\ \A op : /\ Rank(Kind(p, op), n) \in Nat
                   /\ Rank(Kind(p, op), n + 1)
                        = Rank(Kind(p, op), n) + (IF n + 1 \in Kind(p, op) THEN 1 ELSE 0)
    BY <1>0, CallAt
  <1>2. /\ cpc # "closed" /\ UNCHANGED <<cpc, reqLog, rspRead, up>> /\ UNCHANGED svars
    BY <1>0 DEF ReadPayload, cvars
  <1>3. PICK i \in DOMAIN down : Down!ReadChunk(i) \/ Down!ReadEof(i)
    BY <1>0 DEF ReadPayload
  <1>4. /\ conn' = conn /\ DownP!AllWhole' /\ SameStreams(down, down')
        /\ \A d \in DOMAIN down : d # i => down'[d] = down[d]
        /\ down[i].rx = "live"
        /\ Down!ReadChunk(i) => down'[i].rx = "live"
        /\ Down!ReadEof(i) => down'[i].rx = "eof"
    BY <1>0, <1>3, DownReceivesWhole, DownReceiver, ReadPayloadMoves DEF StreamsWhole
  <1>5. /\ down'[i] # down[i]
        /\ IF down'[i].rx = "eof" THEN Asserts(down[i].got \in p[n + 1].expect) ELSE Awaits
    BY <1>1, <1>4 DEF ProgramDrains
  <1>6. Len(down) \in Nat /\ DOMAIN down = 1..Len(down)
    BY <1>0 DEF Shape, DownP!StreamsOK
  <1>7. UpP!AllWhole' /\ Asked(p)' /\ Offered(p)'
    BY <1>0, <1>2, <1>4, UntouchedUp DEF Tracks, Asked, Offered
  <1>8. CASE Down!ReadChunk(i)
    <2>1. Awaits
      BY <1>4, <1>5, <1>8
    <2>2. \A d \in DOMAIN down : down'[d].rx = down[d].rx
      BY <1>4, <1>8
    <2>3. DownloadsTaken(p, n)'
      BY <1>1, <1>2, <1>4, <2>2 DEF ClientAt, DownloadsTaken, ReceiverState, SameStreams
    <2>4. ClientAt(p, n)'
      BY <1>1, <1>2, <2>1, <2>3 DEF ClientAt, Awaits, pvars
    <2>5. Tracks(p, n)'
      BY <1>0, <1>2, <1>4, <1>7, <2>4, Untouched, ClientGoesOn
    <2> QED BY <1>0, <1>2, <1>4, <1>7, <2>1, <2>5, StaysSteady DEF Awaits, pvars, StreamsWhole
  <1>9. CASE Down!ReadEof(i)
    <2> DEFINE drained == Rank(Kind(p, "drain"), n)
               handed  == Rank(Kind(p, "read_data"), n)
    <2>1. /\ drained \in Nat /\ handed \in Nat /\ drained <= handed /\ handed <= Len(down)
          /\ cpc = "idle" \/ cpc = "uploading"
          /\ \A d \in DOMAIN down : down[d].rx = IF d <= drained THEN "eof"
                                                ELSE IF d <= handed THEN "live" ELSE "unaccepted"
      BY <1>0, <1>1, <1>2 DEF ClientAt, DownloadsTaken, ReceiverState, Shape
    <2>2. /\ Rank(Kind(p, "drain"), n + 1) = drained + 1
          /\ Rank(Kind(p, "read_data"), n + 1) = handed
          /\ Rank(Kind(p, "send"), n + 1) = Rank(Kind(p, "send"), n)
          /\ Rank(Kind(p, "receive"), n + 1) = Rank(Kind(p, "receive"), n)
          /\ Rank(Kind(p, "upload"), n + 1) = Rank(Kind(p, "upload"), n)
      BY <1>1
    <2>3. handed = drained + 1
      BY <1>1, <2>2, ProgramFacts DEF Fits, DrainsFit
    <2> HIDE DEF drained, handed
    <2>4. i = drained + 1
      BY <1>4, <1>6, <2>1, <2>3
    <2>5. PICK a \in Asking(p, "send_data") :
            /\ Rank(Asking(p, "send_data"), a) = i
            /\ \E s \in Steps(p[a].frame, "send_data") : down[i].size = ScriptOf(p[a].frame)[s].size
      BY DEF Tracks, Shipped
    <2>6. down[i].size \in p[n + 1].expect
      BY <1>1, <2>2, <2>4, <2>5, ProgramFacts DEF Fits, DrainsFit
    <2>7. down[i].got = down[i].size
      BY <1>0, <1>3, <1>9, ReadPayloadMoves, DrainedWhole DEF StreamsWhole
    <2>8. todo' = After(p, n + 1) /\ outcome' = outcome
      BY <1>1, <1>4, <1>5, <1>9, <2>6, <2>7 DEF Asserts, Returns
    <2>9. DownloadsTaken(p, n + 1)'
      <3>1. /\ drained + 1 <= handed /\ handed <= Len(down')
            /\ \A d \in DOMAIN down' :
                 down'[d].rx = IF d <= drained + 1 THEN "eof"
                               ELSE IF d <= handed THEN "live" ELSE "unaccepted"
        BY <1>4, <1>6, <1>9, <2>1, <2>3, <2>4 DEF SameStreams
      <3> QED BY <1>2, <2>1, <2>2, <3>1 DEF DownloadsTaken, ReceiverState
    <2>10. ClientAt(p, n + 1)'
      <3>1. cpc # "uploading"
        BY <1>1 DEF ClientAt
      <3> QED BY <1>1, <1>2, <2>1, <2>2, <2>8, <2>9, <3>1 DEF ClientAt
    <2>11. Tracks(p, n + 1)'
      BY <1>0, <1>2, <1>4, <1>7, <2>10, Untouched, ClientGoesOn
    <2> QED BY <1>0, <1>1, <1>2, <1>4, <1>7, <2>8, <2>11, StaysSteady DEF StreamsWhole
  <1> QED BY <1>3, <1>8, <1>9
-------------------------------------------------------------------------------
(***************************************************************************)
(* The k-th upload is the stream number k.                                 *)
(***************************************************************************)
LEMMA OpensUploadTrack ==
  ASSUME Correlated, StreamsWhole, Steady, Calls("upload"),
         OpenUpload(Head(todo).id, Head(todo).size), Awaits,
         NEW p \in Programs, NEW n \in 0..Len(p), Tracks(p, n)
  PROVE  StreamsWhole' /\ Steady' /\ Tracks(p, n)'
  <1>0. Shape /\ outcome = "running" /\ UNCHANGED pvars
    BY DEF Correlated, Calls, Awaits
  <1>1. /\ ClientAt(p, n) /\ n \in Nat /\ n + 1 \in Kind(p, "upload") /\ Head(todo) = p[n + 1]
        /\ \A op : /\ Rank(Kind(p, op), n) \in Nat
                   /\ Rank(Kind(p, op), n + 1)
                        = Rank(Kind(p, op), n) + (IF n + 1 \in Kind(p, op) THEN 1 ELSE 0)
    BY CallAt
  <1>2. /\ cpc = "idle" /\ cpc' = "uploading"
        /\ UNCHANGED <<reqLog, rspRead, down>> /\ UNCHANGED svars
        /\ Up!OpenUni(p[n + 1].id, p[n + 1].size)
    BY <1>1 DEF OpenUpload
  <1>3. p[n + 1].id \in ReqIds /\ p[n + 1].size \in 0..MaxChunks
    <2>1. p[n + 1] \in Call
      BY <1>1, ProgramFacts
    <2> QED BY <1>1, <2>1, CallFields DEF Kind
  <1>4. conn' = conn /\ UpP!AllWhole' /\ Grown(up, up', p[n + 1].id, p[n + 1].size)
    BY <1>0, <1>2, <1>3, UpOpensWhole DEF StreamsWhole
  <1>5. DownP!AllWhole' /\ SameStreams(down, down')
    BY <1>0, <1>2, <1>4, UntouchedDown DEF SameDownloads
  <1>6. Len(up') = Rank(Kind(p, "upload"), n + 1) /\ Len(up') = Rank(Kind(p, "upload"), n) + 1
    BY <1>1, <1>2, <1>4 DEF ClientAt, Grown
  <1>7. Offered(p)'
    BY <1>1, <1>4, <1>6 DEF Tracks, Offered, Grown
  <1>8. Asked(p)'
    BY <1>2 DEF Tracks, Asked
  <1>9. ClientAt(p, n)'
    <2>1. DownloadsTaken(p, n)'
      BY <1>1, <1>2 DEF ClientAt, DownloadsTaken, ReceiverState
    <2> QED BY <1>0, <1>1, <1>2, <1>6, <2>1 DEF ClientAt, pvars
  <1>10. UploadsGo
    BY <1>4 DEF UploadsGo
  <1>11. Tracks(p, n)'
    BY <1>0, <1>2, <1>4, <1>5, <1>7, <1>8, <1>9, <1>10, Untouched, ClientGoesOn
  <1> QED BY <1>0, <1>2, <1>4, <1>5, <1>11, StaysSteady DEF StreamsWhole, pvars

LEMMA SendsUploadTrack ==
  ASSUME Correlated, StreamsWhole, Steady, Calls("upload"),
         \/ (SendUpload \/ UploadSourceAnswers) /\ Awaits
         \/ SendDataStream /\ IF up'[Len(up)].tx = "ok" THEN Returns ELSE Errs,
         NEW p \in Programs, NEW n \in 0..Len(p), Tracks(p, n)
  PROVE  /\ StreamsWhole' /\ Steady'
         /\ \E k \in 0..Len(p) : Tracks(p, k)'
  <1>0. Shape /\ outcome = "running"
    BY DEF Correlated, Calls
  <1>1. /\ ClientAt(p, n) /\ n \in Nat /\ n + 1 \in 0..Len(p)
        /\ n + 1 \in Kind(p, "upload") /\ Tail(todo) = After(p, n + 1)
        /\ \A op : n + 1 \in Kind(p, op) <=> op = "upload"
        /\ \A op : /\ Rank(Kind(p, op), n) \in Nat
                   /\ Rank(Kind(p, op), n + 1)
                        = Rank(Kind(p, op), n) + (IF n + 1 \in Kind(p, op) THEN 1 ELSE 0)
    BY CallAt
  <1>2. /\ cpc = "uploading" /\ cpc' \in {"uploading", "idle"}
        /\ UNCHANGED <<reqLog, rspRead, down>> /\ UNCHANGED svars
    BY DEF SendUpload, UploadSourceAnswers, SendDataStream, cvars
  <1>3. Len(up) \in DOMAIN up
    BY <1>0, <1>2 DEF Shape, UpP!StreamsOK
  <1>4. /\ conn' = conn /\ UpP!AllWhole' /\ SameStreams(up, up')
        /\ \A m \in DOMAIN up : SameReceiver(up, up', m)
        /\ Up!WriteFails(Len(up)) => conn # "open"
    BY <1>0, <1>3, UpSendsWhole DEF SendUpload, UploadSourceAnswers, SendDataStream, StreamsWhole
  <1>5. DownP!AllWhole' /\ SameStreams(down, down') /\ Asked(p)' /\ Offered(p)' /\ UploadsGo
    BY <1>0, <1>2, <1>4, UntouchedDown, Untouched DEF SameDownloads, Tracks, UploadsGo
  <1>6. CASE (SendUpload \/ UploadSourceAnswers) /\ Awaits
    <2>1. UNCHANGED <<cpc, todo, outcome>>
      BY <1>6 DEF SendUpload, UploadSourceAnswers, Awaits, cvars, pvars
    <2>2. DownloadsTaken(p, n)'
      BY <1>1, <1>2, <2>1 DEF ClientAt, DownloadsTaken, ReceiverState
    <2>3. ClientAt(p, n)'
      BY <1>1, <1>2, <1>4, <2>1, <2>2 DEF ClientAt, SameStreams
    <2>4. Tracks(p, n)'
      BY <1>0, <1>2, <1>4, <1>5, <2>3, Untouched, ClientGoesOn
    <2> QED BY <1>0, <1>2, <1>4, <1>5, <2>1, <2>4, StaysSteady DEF StreamsWhole
  <1>7. CASE SendDataStream /\ IF up'[Len(up)].tx = "ok" THEN Returns ELSE Errs
    <2>1. up'[Len(up)].tx = "ok" \/ conn # "open"
      <3>1. CASE Up!Finish(Len(up))
        <4>1. up \in Seq(UpP!Stream) /\ up[Len(up)] \in UpP!Stream
          BY <1>0, <1>3 DEF Shape, UpP!StreamsOK
        <4> QED BY <1>3, <3>1, <4>1 DEF Up!Finish, UpP!Stream
      <3>2. CASE Up!WriteFails(Len(up))
        BY <1>4, <3>2
      <3> QED BY <1>7, <3>1, <3>2 DEF SendDataStream
    <2>2. outcome' = "running" \/ (outcome' = "err" /\ conn # "open")
      BY <1>0, <1>7, <2>1 DEF Returns, Errs
    <2>3. ASSUME outcome' = "running" PROVE ClientAt(p, n + 1)'
      <3>1. todo' = After(p, n + 1) /\ cpc' = "idle"
        BY <1>1, <1>7, <2>3 DEF Returns, Errs, SendDataStream
      <3>2. /\ Rank(Kind(p, "upload"), n + 1) = Len(up')
            /\ Rank(Kind(p, "drain"), n + 1) = Rank(Kind(p, "drain"), n)
            /\ Rank(Kind(p, "read_data"), n + 1) = Rank(Kind(p, "read_data"), n)
            /\ Rank(Kind(p, "receive"), n + 1) = Rank(Kind(p, "receive"), n)
            /\ Rank(Kind(p, "send"), n + 1) = Rank(Kind(p, "send"), n)
            /\ Rank(Kind(p, "upload"), n + 1) \in Nat
        BY <1>1, <1>2, <1>4 DEF ClientAt, SameStreams
      <3>3. DownloadsTaken(p, n + 1)'
        BY <1>1, <1>2, <3>1, <3>2 DEF ClientAt, DownloadsTaken, ReceiverState
      <3> QED BY <1>1, <1>2, <3>1, <3>2, <3>3 DEF ClientAt
    <2>4. Tracks(p, n + 1)'
      BY <1>0, <1>2, <1>4, <1>5, <2>3, Untouched, ClientGoesOn
    <2> QED BY <1>0, <1>1, <1>2, <1>4, <1>5, <2>2, <2>4, StaysSteady DEF StreamsWhole
  <1> QED BY <1>6, <1>7

-------------------------------------------------------------------------------
(***************************************************************************)
(* The end of a program, of the connection, and no step at all.            *)
(***************************************************************************)
LEMMA EndsTrack ==
  ASSUME Correlated, StreamsWhole, Steady,
         ProgramFails \/ ProgramEnds \/ (LoseConnection /\ UNCHANGED pvars),
         NEW p \in Programs, NEW n \in 0..Len(p), Tracks(p, n)
  PROVE  StreamsWhole' /\ Steady' /\ Tracks(p, n)'
  <1>0. Shape
    BY DEF Correlated
  <1>1. /\ UNCHANGED <<reqLog, rspRead, down, up>> /\ UNCHANGED svars
        /\ conn' = "open" => conn = "open"
    BY DEF ProgramFails, ProgramEnds, CloseClient, LoseConnection, vars, cvars, svars
  <1>2. Steady'
    <2>1. CASE ProgramFails
      BY <1>0, <2>1, OpenOrLost DEF ProgramFails, Errs, vars, Steady
    <2>2. CASE ProgramEnds
      BY <1>0, <2>2 DEF ProgramEnds, CloseClient, Steady, Shape
    <2>3. CASE LoseConnection /\ UNCHANGED pvars
      BY <2>3 DEF LoseConnection, pvars, cvars, Steady
    <2> QED BY <2>1, <2>2, <2>3
  <1>3. ASSUME outcome' = "running", todo' # <<>> PROVE ClientAt(p, n)'
    <2>1. UNCHANGED <<cpc, todo, outcome>>
      BY <1>2, <1>3 DEF ProgramFails, ProgramEnds, CloseClient, LoseConnection, Errs, pvars, cvars,
                        Steady
    <2>2. ClientAt(p, n)
      BY <1>3, <2>1 DEF Tracks
    <2> QED BY <1>1, <2>1, <2>2 DEF ClientAt, DownloadsTaken, ReceiverState
  <1>4. Asked(p)' /\ Offered(p)'
    BY <1>1 DEF Tracks, Asked, Offered
  <1>5. Tracks(p, n)'
    BY <1>0, <1>1, <1>3, <1>4, Untouched, ClientGoesOn
  <1> QED BY <1>0, <1>1, <1>2, <1>5, WholeKept

LEMMA StutterTracks ==
  ASSUME Correlated, StreamsWhole, Steady, UNCHANGED sessionVars,
         NEW p \in Programs, NEW n \in 0..Len(p), Tracks(p, n)
  PROVE  StreamsWhole' /\ Steady' /\ Tracks(p, n)'
  <1>0. Shape
    BY DEF Correlated
  <1>1. UNCHANGED <<conn, cpc, reqLog, rspRead, down, up, todo, outcome>> /\ UNCHANGED svars
    BY DEF sessionVars, vars, pvars, svars
  <1>2. Steady'
    BY <1>1 DEF Steady
  <1>3. outcome' = "running" /\ todo' # <<>> => ClientAt(p, n)'
    BY <1>1 DEF Tracks, ClientAt, DownloadsTaken, ReceiverState
  <1>4. Asked(p)' /\ Offered(p)'
    BY <1>1 DEF Tracks, Asked, Offered
  <1>5. Tracks(p, n)'
    BY <1>0, <1>1, <1>3, <1>4, Untouched, ClientGoesOn
  <1> QED BY <1>0, <1>1, <1>2, <1>5, WholeKept

(***************************************************************************)
(* The invariant is inductive.                                             *)
(***************************************************************************)
LEMMA SessionInitInv == SessionInit => SessionInv
  <1> SUFFICES ASSUME SessionInit PROVE SessionInv
    OBVIOUS
  <1> DEFINE p == todo
  <1>0. Init /\ p \in Programs /\ outcome = "running" /\ Placed
    BY PlacedInit DEF SessionInit
  <1>1. /\ conn = "open" /\ cpc = "idle" /\ reqLog = <<>> /\ reqRead = 0 /\ rspLog = <<>>
        /\ rspRead = 0 /\ spc = "accepting" /\ down = <<>> /\ up = <<>>
    BY <1>0 DEF Init
  <1>2. p \in Seq(Call) /\ 0 \in 0..Len(p) /\ todo = After(p, 0)
    BY <1>0, ProgramFacts, AfterFacts
  <1>3. \A op : Rank(Kind(p, op), 0) = 0 /\ Rank(Asking(p, op), 0) = 0
    BY <1>0, CallRank
  <1>4. DOMAIN reqLog = {} /\ DOMAIN rspLog = {} /\ DOMAIN down = {} /\ DOMAIN up = {}
        /\ Len(reqLog) = 0 /\ Len(rspLog) = 0 /\ Len(down) = 0 /\ Len(up) = 0
    BY <1>1
  <1>5. StreamsWhole /\ InOrder /\ Steady
    BY <1>0, <1>1, <1>4 DEF StreamsWhole, DownP!AllWhole, UpP!AllWhole, InOrder, Steady
  <1>6. Asked(p) /\ Offered(p) /\ Shipped(p)
    BY <1>4 DEF Asked, Offered, Shipped
  <1> HIDE DEF p
  <1>7. ServerAt(p, 0)
    <2>1. ~Busy
      BY <1>1 DEF Busy
    <2>2. \A op : Done(p, op, 0) = 0
      BY <1>3, <2>1 DEF Done
    <2>3. UploadsTaken(p, 0)
      BY <1>4, <2>2 DEF UploadsTaken
    <2> QED BY <1>1, <1>3, <1>4, <2>1, <2>2, <2>3 DEF ServerAt
  <1>8. ClientAt(p, 0)
    <2>1. DownloadsTaken(p, 0)
      BY <1>1, <1>3, <1>4 DEF DownloadsTaken
    <2> QED BY <1>1, <1>2, <1>3, <1>4, <2>1 DEF ClientAt
  <1>9. Tracks(p, 0)
    BY <1>2, <1>6, <1>7, <1>8 DEF Tracks
  <1> QED BY <1>0, <1>2, <1>5, <1>9, InitCorrelated DEF SessionInv

LEMMA SessionNextInv == SessionInv /\ [SessionNext]_sessionVars => SessionInv'
  <1> SUFFICES ASSUME SessionInv, [SessionNext]_sessionVars PROVE SessionInv'
    OBVIOUS
  <1>1. Placed' /\ Correlated'
    BY PlacedNext, SessionStep, NextCorrelated DEF SessionInv
  <1>2. PICK p \in Programs : \E n \in 0..Len(p) : Tracks(p, n)
    BY DEF SessionInv
  <1>3. PICK n \in 0..Len(p) : Tracks(p, n)
    BY <1>2
  <1>4. Correlated /\ StreamsWhole /\ InOrder /\ Steady
    BY DEF SessionInv
  <1>5. CASE SessionServerNext
    BY <1>1, <1>3, <1>4, <1>5, ServerTracks DEF SessionInv
  <1>6. CASE ~SessionServerNext
    <2>1. StreamsWhole' /\ Steady' /\ \E k \in 0..Len(p) : Tracks(p, k)'
      <3>1. CASE ProgramSends \/ ProgramReceives
        <4>1. Calls("send") \/ Calls("receive")
          BY <3>1 DEF ProgramSends, ProgramReceives
        <4>2. n + 1 \in 0..Len(p)
          BY <1>3, <4>1, CallAt
        <4>3. StreamsWhole' /\ Steady' /\ Tracks(p, n + 1)'
          BY <1>3, <1>4, <3>1, SendsTrack, ReceivesTrack
        <4> QED BY <4>2, <4>3
      <3>2. CASE ProgramAcceptsStream
        BY <1>3, <1>4, <3>2, AcceptsTrack
      <3>3. CASE ProgramReadsStream
        BY <1>3, <1>4, <3>3, ReadsTrack
      <3>4. CASE ProgramDrains
        BY <1>3, <1>4, <3>4, DrainsTrack
      <3>5. CASE ProgramUploads
        BY <1>3, <1>4, <3>5, OpensUploadTrack, SendsUploadTrack DEF ProgramUploads
      <3>6. CASE ProgramFails \/ ProgramEnds \/ (LoseConnection /\ UNCHANGED pvars)
        BY <1>3, <1>4, <3>6, EndsTrack
      <3>7. CASE UNCHANGED sessionVars
        BY <1>3, <1>4, <3>7, StutterTracks
      <3> QED BY <1>6, <3>1, <3>2, <3>3, <3>4, <3>5, <3>6, <3>7 DEF SessionNext, ProgramNext
    <2>2. InOrder'
      <3>1. UNCHANGED svars
        <4>1. ClientNext \/ LoseConnection \/ UNCHANGED vars
          BY <1>6, CallFacts, CallFields, <1>4
             DEF SessionInv, SessionNext, ProgramNext, ProgramSends, ProgramReceives,
                 ProgramAcceptsStream, ProgramReadsStream, ProgramDrains, ProgramUploads,
                 ProgramFails, ProgramEnds, Calls, sessionVars, ClientNext
        <4> QED BY <1>4, <4>1, ClientEffect DEF Correlated
      <3> QED BY <1>4, <3>1 DEF InOrder, svars
    <2> QED BY <1>1, <2>1, <2>2 DEF SessionInv
  <1> QED BY <1>5, <1>6

LEMMA SpecSessionInv == SessionSpec => []SessionInv
  BY SessionInitInv, SessionNextInv, PTL DEF SessionSpec

(***************************************************************************)
(* No program that fits its server ever fails an assertion, whatever the   *)
(* interleaving, the windows and the limits: it receives the statuses in   *)
(* the order of its requests, the id it asked for in front of each payload *)
(* and the payload whole; and its calls return errors only when the path   *)
(* was lost.                                                               *)
(***************************************************************************)
THEOREM AssertionsNeverFail == SessionSpec => []AssertionsHold
  <1>1. SessionInv => AssertionsHold
    BY DEF SessionInv, Steady, AssertionsHold
  <1> QED BY <1>1, SpecSessionInv, PTL

(***************************************************************************)
(* A handler reads the upload that the client sent for the very request it *)
(* serves, although neither side compares ids: the k-th stream is accepted *)
(* by the k-th handler that accepts one.                                   *)
(***************************************************************************)
THEOREM UploadsMatch == SessionSpec => []UploadMatchesRequest
  <1>1. SessionInv => UploadMatchesRequest
    <2> SUFFICES ASSUME SessionInv, NEW i \in DOMAIN up, conn = "open", spc = "pulling",
                        up[i].rx \in {"accepted", "live"}
                 PROVE  up[i].req = CurrentId
      BY DEF UploadMatchesRequest
    <2>1. PICK p \in Programs : \E n \in 0..Len(p) : Tracks(p, n)
      BY DEF SessionInv
    <2>2. Asked(p) /\ Offered(p) /\ Shape /\ Served
      BY <2>1 DEF Tracks, SessionInv, Correlated
    <2>3. PICK q \in 0..Len(p) : ServerAt(p, q)
      BY <2>1 DEF Tracks
    <2>4. Busy
      BY DEF Busy
    <2>5. i = Done(p, "read_data", q)
      BY <2>3 DEF ServerAt, UploadsTaken
    <2>6. step + 1 \in Steps(reqLog[reqRead], "read_data")
      <3>1. reqRead \in 1..reqRead
        BY <2>2, <2>4 DEF Shape
      <3> QED BY <2>2, <2>4, <3>1, AtAStep DEF Served
    <2>7. /\ q \in Asking(p, "read_data") /\ i = Rank(Asking(p, "read_data"), q)
          /\ CurrentId = p[q].frame.id
      BY <2>2, <2>3, <2>4, <2>5, <2>6, BusyFacts DEF Done, Begun, CurrentId
    <2>8. PICK j \in Kind(p, "upload") : Rank(Kind(p, "upload"), j) = i /\ up[i].req = p[j].id
      BY <2>2 DEF Offered
    <2> QED BY <2>7, <2>8, ProgramFacts DEF Fits, UploadsFit
  <1> QED BY <1>1, SpecSessionInv, PTL
=============================================================================
