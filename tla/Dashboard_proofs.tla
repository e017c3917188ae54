-------------------------- MODULE Dashboard_proofs --------------------------
(***************************************************************************)
(* Proofs about Dashboard: type correctness, and that a dashboard at rest  *)
(* shows a list no older than any change it was told of.                   *)
(***************************************************************************)
EXTENDS Dashboard, FiniteSets, FiniteSetTheorems, TLAPS

\* The writes the server is done with.
Answered == {n \in WriteIds : writes[n].stage \in {"success", "error", "over"}}

\* Each write and each change elsewhere adds at most one revision.
LogIsBounded == Len(log) =< 1 + elsewhere + Cardinality(Answered)

LogHolds == log \in Seq(SUBSET Repos) /\ Len(log) >= 1 /\ LogIsBounded

BoardHolds ==
    /\ board \in Board
    /\ board.list # Nothing => board.list =< Len(log)
    /\ board.confirming \subseteq Rows(board)
    /\ board.done =< Len(log)

WritesHold ==
    /\ writes \in [WriteIds -> Write]
    /\ \A n \in WriteIds : /\ writes[n].revision =< Len(log)
                           /\ writes[n].stage = "pending" => writes[n].repo \in Repos

ListsHold ==
    /\ lists \in [ListIds -> List]
    /\ \A n \in ListIds : lists[n].revision =< Len(log)

TypeInv ==
    /\ elsewhere \in 0 .. MaxElsewhere
    /\ LogHolds
    /\ BoardHolds
    /\ WritesHold
    /\ ListsHold

\* The requests for the list are sent in the order of their numbers.
SentInOrder ==
    \A m, n \in ListIds : m < n /\ lists[n].stage # "unsent" => lists[m].stage # "unsent"

\* A dashboard has asked for its list, and shows what one of its own requests
\* brought.
ShowsItsOwn ==
    board.open =>
        /\ Sent(board.mount) # {}
        /\ board.from # Nothing => board.from \in Sent(board.mount) /\ lists[board.from].stage = "over"

\* The last request of the dashboard on the screen.
Latest(n) == n \in Sent(board.mount) /\ \A m \in Sent(board.mount) : m =< n

\* It was sent after the last change that the dashboard was told of.
LatestIsFresh ==
    board.open => \A n \in ListIds : Latest(n) =>
        /\ lists[n].stage = "success" => lists[n].revision >= board.done
        /\ board.from = n => board.list # Nothing /\ board.list >= board.done


-----------------------------------------------------------------------------
(* What each update touches. *)

\* The log only grows, by one revision at a time.
Grows == log' = log \/ \E tracked \in SUBSET Repos : log' = Append(log, tracked)

LEMMA LogEffect ==
  ASSUME log \in Seq(SUBSET Repos), Len(log) >= 1, Grows
  PROVE  /\ log' \in Seq(SUBSET Repos)
         /\ Len(log') >= Len(log) /\ Len(log') =< Len(log) + 1
         /\ \A i \in 1 .. Len(log) : log'[i] = log[i]
<1>1. CASE log' = log
  BY <1>1
<1>2. ASSUME NEW tracked \in SUBSET Repos, log' = Append(log, tracked)
      PROVE  /\ log' \in Seq(SUBSET Repos)
             /\ Len(log') = Len(log) + 1
             /\ \A i \in 1 .. Len(log) : log'[i] = log[i]
  BY <1>2
<1>3. QED
  BY <1>1, <1>2 DEF Grows

\* What the server tracks now is a set of repositories.
LEMMA TrackedType ==
  ASSUME LogHolds
  PROVE  Tracked \in SUBSET Repos
  BY DEF LogHolds, Tracked, Revision

LEMMA AnsweredIsFinite ==
  ASSUME NEW S \in SUBSET WriteIds
  PROVE  IsFiniteSet(S) /\ Cardinality(S) \in Nat /\ Cardinality(S) =< MaxWrites
<1>1. MaxWrites \in Nat
  BY DashboardAssumption
<1>2. IsFiniteSet(1 .. MaxWrites) /\ Cardinality(1 .. MaxWrites) = MaxWrites
  BY <1>1, FS_Interval
<1>3. S \subseteq 1 .. MaxWrites
  BY DEF WriteIds
<1>4. IsFiniteSet(S) /\ Cardinality(S) =< Cardinality(1 .. MaxWrites)
  BY <1>2, <1>3, FS_Subset
<1>5. QED
  BY <1>2, <1>4, FS_CardinalityType

\* The number of a revision never exceeds its bound.
LEMMA RevisionBound ==
  ASSUME LogHolds, elsewhere \in 0 .. MaxElsewhere
  PROVE  Len(log) \in Revisions
<1>1. Cardinality(Answered) \in Nat /\ Cardinality(Answered) =< MaxWrites
  BY AnsweredIsFinite DEF Answered
<1>2. MaxWrites \in Nat /\ MaxElsewhere \in Nat /\ Len(log) \in Nat
  BY DashboardAssumption DEF LogHolds
<1>3. QED
  BY <1>1, <1>2 DEF LogHolds, LogIsBounded, Revisions

\* A request for the list takes the next number.
LEMMA RefreshEffect ==
  ASSUME ListsHold, Len(log) >= 1, log \in Seq(SUBSET Repos), Grows, NEW mount \in Mounts, Refresh(mount)
  PROVE  /\ ListsHold'
         /\ \E n \in ListIds :
              /\ lists[n].stage = "unsent"
              /\ \A i \in ListIds : i < n => lists[i].stage # "unsent"
              /\ lists'[n].stage = "pending" /\ lists'[n].mount = mount
              /\ \A i \in ListIds : i # n => lists'[i] = lists[i]
<1>1. PICK n \in ListIds :
        /\ NextUnsent(lists, n)
        /\ lists' = [lists EXCEPT ![n].stage = "pending", ![n].mount = mount]
  BY DEF Refresh
<1>2. lists \in [ListIds -> List] /\ DOMAIN lists = ListIds
  BY DEF ListsHold
<1> DEFINE l == [lists[n] EXCEPT !.stage = "pending", !.mount = mount]
<1>3. lists' = [lists EXCEPT ![n] = l]
  BY <1>1
<1>4. l \in List /\ l.stage = "pending" /\ l.mount = mount /\ l.revision = lists[n].revision
  BY <1>2 DEF List
<1> HIDE DEF l
<1>5. /\ lists' \in [ListIds -> List]
      /\ lists'[n] = l
      /\ \A i \in ListIds : i # n => lists'[i] = lists[i]
  BY <1>2, <1>3, <1>4
<1>6. Len(log') >= Len(log) /\ Len(log) \in Nat /\ Len(log') \in Nat
  BY LogEffect
<1>7. \A i \in ListIds : lists'[i].revision = lists[i].revision
  BY <1>4, <1>5
<1>8. \A i \in ListIds : lists[i].revision \in Nat /\ lists[i].revision =< Len(log)
  BY <1>2 DEF ListsHold, List, Revisions
<1>9. ListsHold'
  BY <1>5, <1>6, <1>7, <1>8 DEF ListsHold
<1>10. QED
  BY <1>1, <1>2, <1>4, <1>5, <1>9 DEF NextUnsent

\* A board that stays as it is still fits the log.
LEMMA BoardKept ==
  ASSUME LogHolds, BoardHolds, Grows, board' = board
  PROVE  BoardHolds'
<1>1. /\ Len(log) \in Nat /\ Len(log') \in Nat /\ Len(log') >= Len(log)
      /\ \A i \in 1 .. Len(log) : log'[i] = log[i]
  BY LogEffect DEF LogHolds
<1>2. board \in Board /\ board.done \in Nat /\ (board.list # Nothing => board.list \in 1 .. Len(log))
  BY <1>1 DEF BoardHolds, Board, Revisions
<1>3. Rows(board)' = Rows(board)
  BY <1>1, <1>2 DEF Rows
<1>4. QED
  BY <1>1, <1>2, <1>3 DEF BoardHolds

\* So do the writes and the lists.
LEMMA WritesKept ==
  ASSUME LogHolds, WritesHold, Grows, writes' = writes
  PROVE  WritesHold'
<1>1. Len(log) \in Nat /\ Len(log') \in Nat /\ Len(log') >= Len(log)
  BY LogEffect DEF LogHolds
<1>2. \A n \in WriteIds : writes[n].revision \in Nat
  BY DEF WritesHold, Write, Revisions
<1>3. QED
  BY <1>1, <1>2 DEF WritesHold

LEMMA ListsKept ==
  ASSUME LogHolds, ListsHold, Grows, lists' = lists
  PROVE  ListsHold'
<1>1. Len(log) \in Nat /\ Len(log') \in Nat /\ Len(log') >= Len(log)
  BY LogEffect DEF LogHolds
<1>2. \A n \in ListIds : lists[n].revision \in Nat
  BY DEF ListsHold, List, Revisions
<1>3. QED
  BY <1>1, <1>2 DEF ListsHold

\* A new dashboard, or none.
LEMMA NewBoardHolds ==
  ASSUME LogHolds, NEW m \in Mounts, log' = log,
         board' = NewBoard(m) \/ board' = [NewBoard(m) EXCEPT !.open = FALSE]
  PROVE  /\ BoardHolds'
         /\ board'.mount = m /\ board'.from = Nothing /\ board'.done = 1
<1> DEFINE b(o) == [mount |-> m, open |-> o, list |-> Nothing, from |-> Nothing, error |-> FALSE,
                    submitting |-> FALSE, confirming |-> {}, done |-> 1]
<1>1. PICK o \in BOOLEAN : board' = b(o)
  <2>1. NewBoard(m) = b(TRUE)
    BY DEF NewBoard
  <2>2. ASSUME NEW o \in BOOLEAN, board' = [NewBoard(m) EXCEPT !.open = o] PROVE board' = b(o)
    BY <2>2 DEF NewBoard
  <2>3. board' = [NewBoard(m) EXCEPT !.open = FALSE] => board' = b(FALSE)
    BY <2>2
  <2> HIDE DEF b
  <2>4. QED
    BY <2>1, <2>3
<1>2. /\ b(o).mount = m /\ b(o).list = Nothing /\ b(o).from = Nothing
      /\ b(o).confirming = {} /\ b(o).done = 1
  OBVIOUS
<1>3. 1 \in Revisions
  BY DashboardAssumption DEF Revisions
<1>4. b(o) \in Board
  BY <1>3 DEF Board
<1> HIDE DEF b
<1>5. QED
  BY <1>1, <1>2, <1>4 DEF BoardHolds, Rows, LogHolds

\* The list that arrives is shown, and only questions about its rows remain.
LEMMA ShowList ==
  ASSUME LogHolds, BoardHolds, ListsHold, NEW n \in ListIds, log' = log,
         board' = [board EXCEPT !.list = lists[n].revision, !.from = n, !.error = FALSE,
                                !.confirming = @ \cap log[lists[n].revision]]
  PROVE  /\ BoardHolds'
         /\ board'.open = board.open
         /\ board'.mount = board.mount
         /\ board'.done = board.done
         /\ board'.from = n
         /\ board'.list = lists[n].revision
<1> DEFINE v == lists[n].revision
           c == board.confirming \cap log[v]
           b == [board EXCEPT !.list = v, !.from = n, !.error = FALSE, !.confirming = c]
<1>1. board' = b
  BY DEF BoardHolds, Board
<1>2. v \in Revisions /\ v =< Len(log)
  BY DEF ListsHold, List
<1>3. v # Nothing
  BY <1>2, DashboardAssumption DEF Revisions
<1>4. c \in SUBSET Repos /\ c \subseteq log[v]
  BY DEF BoardHolds, Board
<1> HIDE DEF v, c
<1>5. b \in Board
  BY <1>2, <1>4 DEF BoardHolds, Board
<1>6. b.mount = board.mount /\ b.done = board.done /\ b.from = n
      /\ b.list = v /\ b.confirming = c
  BY DEF BoardHolds, Board
<1>7. b.open = board.open
  BY DEF BoardHolds, Board
<1> HIDE DEF b
<1>8. BoardHolds'
  BY <1>1, <1>2, <1>3, <1>4, <1>5, <1>6 DEF BoardHolds, Rows
<1>9. QED
  BY <1>1, <1>6, <1>7, <1>8 DEF v

\* Everything else a dashboard does to itself leaves the list it shows alone.
SameList ==
    /\ board'.mount = board.mount
    /\ board'.open = board.open
    /\ board'.list = board.list
    /\ board'.from = board.from

LEMMA ShowError ==
  ASSUME BoardHolds, log' = log, board' = [board EXCEPT !.error = TRUE]
  PROVE  BoardHolds' /\ SameList /\ board'.done = board.done
<1> DEFINE b == [board EXCEPT !.error = TRUE]
<1>1. b \in Board
  BY DEF BoardHolds, Board
<1>2. b.mount = board.mount /\ b.done = board.done /\ b.from = board.from
      /\ b.list = board.list /\ b.confirming = board.confirming
  BY DEF BoardHolds, Board
<1>3. b.open = board.open
  BY DEF BoardHolds, Board
<1> HIDE DEF b
<1>4. board' = b
  BY DEF b
<1>5. QED
  BY <1>1, <1>2, <1>3, <1>4 DEF BoardHolds, Rows, SameList

LEMMA Confirming ==
  ASSUME BoardHolds, log' = log, NEW c \in SUBSET Rows(board),
         c \in SUBSET Repos, board' = [board EXCEPT !.confirming = c]
  PROVE  BoardHolds' /\ SameList /\ board'.done = board.done
<1> DEFINE b == [board EXCEPT !.confirming = c]
<1>1. b \in Board
  BY DEF BoardHolds, Board
<1>2. b.mount = board.mount /\ b.done = board.done /\ b.from = board.from
      /\ b.list = board.list /\ b.confirming = c
  BY DEF BoardHolds, Board
<1>3. b.open = board.open
  BY DEF BoardHolds, Board
<1> HIDE DEF b
<1>4. board' = b
  BY DEF b
<1>5. QED
  BY <1>1, <1>2, <1>3, <1>4 DEF BoardHolds, Rows, SameList

LEMMA Submitting ==
  ASSUME BoardHolds, log' = log, board' = [board EXCEPT !.submitting = TRUE]
  PROVE  BoardHolds' /\ SameList /\ board'.done = board.done
<1> DEFINE b == [board EXCEPT !.submitting = TRUE]
<1>1. b \in Board
  BY DEF BoardHolds, Board
<1>2. b.mount = board.mount /\ b.done = board.done /\ b.from = board.from
      /\ b.list = board.list /\ b.confirming = board.confirming
  BY DEF BoardHolds, Board
<1>3. b.open = board.open
  BY DEF BoardHolds, Board
<1> HIDE DEF b
<1>4. board' = b
  BY DEF b
<1>5. QED
  BY <1>1, <1>2, <1>3, <1>4 DEF BoardHolds, Rows, SameList

\* The outcome of a write moves the last change the dashboard was told of
\* forward, never beyond the log.
LEMMA ShowWrite ==
  ASSUME LogHolds, BoardHolds, WritesHold, NEW n \in WriteIds, log' = log,
         board' = Shown(writes[n])
  PROVE  /\ BoardHolds' /\ SameList
         /\ board'.done # board.done => Mounted(writes[n].mount) /\ writes[n].stage = "success"
<1> DEFINE w == writes[n]
           s == board.submitting /\ w.kind # "track"
           e == board.error \/ (w.kind = "untrack" /\ w.stage = "error")
           d == Told(w)
           b == [board EXCEPT !.submitting = s, !.error = e, !.done = d]
<1>1. CASE ~Mounted(w.mount)
  <2>1. board' = board
    BY <1>1 DEF Shown
  <2>2. QED
    BY <2>1, BoardKept DEF SameList, Grows
<1>2. CASE Mounted(w.mount)
  <2>1. board' = b
    BY <1>2 DEF Shown, BoardHolds, Board
  <2>2. s \in BOOLEAN /\ e \in BOOLEAN
    OBVIOUS
  <2>3. /\ d \in Revisions /\ d =< Len(log)
        /\ d # board.done => w.stage = "success"
    BY DEF Told, BoardHolds, WritesHold, Board, Write
  <2> HIDE DEF s, e, d
  <2>4. b \in Board
    BY <2>2, <2>3 DEF BoardHolds, Board
  <2>5. b.mount = board.mount /\ b.from = board.from /\ b.done = d
        /\ b.list = board.list /\ b.confirming = board.confirming
    BY DEF BoardHolds, Board
  <2>6. b.open = board.open
    BY DEF BoardHolds, Board
  <2> HIDE DEF b
  <2>7. QED
    BY <1>2, <2>1, <2>3, <2>4, <2>5, <2>6 DEF BoardHolds, Rows, SameList
<1>3. QED
  BY <1>1, <1>2

-----------------------------------------------------------------------------
(* The type invariant. *)

LEMMA SendEffect ==
  ASSUME BoardHolds, WritesHold, log' = log, NEW n \in WriteIds, NEW kind \in {"track", "untrack"},
         NEW r \in Repos, Send(n, kind, r)
  PROVE  WritesHold' /\ Answered' = Answered
<1> DEFINE w == [writes[n] EXCEPT !.kind = kind, !.repo = r, !.mount = board.mount, !.stage = "pending"]
<1>1. writes' = [writes EXCEPT ![n] = w]
  BY DEF Send
<1>2. writes[n] \in Write /\ board.mount \in Mounts
  BY DEF WritesHold, BoardHolds, Board
<1>3. w \in Write /\ w.stage = "pending" /\ w.repo = r /\ w.revision = writes[n].revision
  BY <1>2 DEF Write
<1> HIDE DEF w
<1>4. /\ writes' \in [WriteIds -> Write]
      /\ writes'[n] = w
      /\ \A i \in WriteIds : i # n => writes'[i] = writes[i]
  BY <1>1, <1>3 DEF WritesHold
<1>5. writes[n].stage = "unsent"
  BY DEF Send, NextUnsent
<1>6. Answered' = Answered
  BY <1>3, <1>4, <1>5 DEF Answered
<1>7. QED
  BY <1>3, <1>4, <1>6 DEF WritesHold

\* The server is done with a request, and with one write more.
LEMMA AnswerWriteEffect ==
  ASSUME LogHolds, WritesHold, elsewhere \in 0 .. MaxElsewhere, NEW n \in WriteIds, AnswerWrite(n)
  PROVE  Grows /\ LogHolds' /\ WritesHold'
<1> DEFINE w == writes[n]
           s == IF writes'[n].stage = "success" THEN "success" ELSE "error"
<1>0. w \in Write /\ w.stage = "pending" /\ w.repo \in Repos
  BY DEF AnswerWrite, WritesHold
<1>1. Grows
  <2>1. After(w) \in SUBSET Repos
    BY <1>0, TrackedType DEF After
  <2>2. Apply(w) => Grows
    BY <2>1 DEF Apply, Grows
  <2>3. QED
    BY <2>2 DEF AnswerWrite, Grows
<1>2. Len(log) \in Nat /\ Len(log') \in Nat /\ Len(log') >= Len(log) /\ Len(log') >= 1
      /\ Len(log') =< Len(log) + 1
  BY <1>1, LogEffect DEF LogHolds
<1>3. Len(log') \in Revisions => WritesHold'
  <2> SUFFICES ASSUME Len(log') \in Revisions PROVE WritesHold'
    OBVIOUS
  <2>1. PICK x \in Write :
          /\ x.revision =< Len(log') /\ x.stage # "pending"
          /\ writes' = [writes EXCEPT ![n] = x]
    <3>1. CASE writes' = [writes EXCEPT ![n].stage = "success", ![n].revision = Len(log')]
      <4> DEFINE l == Len(log')
                 x == [w EXCEPT !.stage = "success", !.revision = l]
      <4>1. writes' = [writes EXCEPT ![n] = x]
        BY <3>1
      <4> HIDE DEF l
      <4>2. x \in Write /\ x.revision = l /\ x.stage = "success"
        <5>1. l \in Revisions
          BY DEF l
        <5>2. QED
          BY <1>0, <5>1 DEF Write
      <4> HIDE DEF x
      <4>3. x.revision =< Len(log')
        BY <4>2, <1>2 DEF l
      <4>4. QED
        BY <4>1, <4>2, <4>3
    <3>2. CASE writes' = [writes EXCEPT ![n].stage = "error"]
      <4> DEFINE x == [w EXCEPT !.stage = "error"]
      <4>1. writes' = [writes EXCEPT ![n] = x]
        BY <3>2
      <4>2. x \in Write /\ x.revision = w.revision /\ x.stage = "error"
        BY <1>0 DEF Write
      <4> HIDE DEF x
      <4>3. w.revision \in Nat /\ w.revision =< Len(log)
        BY DEF WritesHold, Write, Revisions
      <4>4. x.revision =< Len(log')
        BY <1>2, <4>2, <4>3
      <4>5. QED
        BY <4>1, <4>2, <4>4
    <3>3. QED
      BY <3>1, <3>2 DEF AnswerWrite
  <2>2. /\ writes' \in [WriteIds -> Write]
        /\ writes'[n] = x
        /\ \A i \in WriteIds : i # n => writes'[i] = writes[i]
    BY <2>1 DEF WritesHold
  <2>3. \A i \in WriteIds : writes[i].revision \in Nat /\ writes[i].revision =< Len(log)
    BY DEF WritesHold, Write, Revisions
  <2>4. \A i \in WriteIds : writes'[i].revision =< Len(log')
    BY <1>2, <2>1, <2>2, <2>3
  <2>5. \A i \in WriteIds : writes'[i].stage = "pending" => writes'[i].repo \in Repos
    BY <2>1, <2>2 DEF WritesHold
  <2>6. QED
    BY <2>2, <2>4, <2>5 DEF WritesHold
<1>4. Answered' = Answered \cup {n} /\ n \notin Answered
  <2>1. /\ writes'[n].stage \in {"success", "error"}
        /\ \A i \in WriteIds : i # n => writes'[i] = writes[i]
    BY <1>0 DEF AnswerWrite, WritesHold, Write
  <2>2. QED
    BY <1>0, <2>1 DEF Answered
<1>5. Cardinality(Answered') = Cardinality(Answered) + 1
  <2>1. IsFiniteSet(Answered)
    BY AnsweredIsFinite DEF Answered
  <2>2. QED
    BY <1>4, <2>1, FS_AddElement
<1>6. LogHolds'
  <2>1. Cardinality(Answered) \in Nat /\ elsewhere' = elsewhere /\ elsewhere \in Nat
    BY AnsweredIsFinite DEF Answered, AnswerWrite
  <2>2. Len(log) =< 1 + elsewhere + Cardinality(Answered)
    BY DEF LogHolds, LogIsBounded
  <2>3. Len(log') =< 1 + elsewhere' + Cardinality(Answered')
    BY <1>2, <1>5, <2>1, <2>2
  <2>4. log' \in Seq(SUBSET Repos)
    BY <1>1, LogEffect DEF LogHolds
  <2>5. QED
    BY <1>2, <2>3, <2>4 DEF LogHolds, LogIsBounded
<1>7. Len(log') \in Revisions
  <2>1. elsewhere' \in 0 .. MaxElsewhere
    BY DEF AnswerWrite
  <2>2. Answered' \in SUBSET WriteIds
    BY DEF Answered
  <2>3. Cardinality(Answered') \in Nat /\ Cardinality(Answered') =< MaxWrites
    BY <2>2, AnsweredIsFinite
  <2>4. MaxWrites \in Nat /\ MaxElsewhere \in Nat
    BY DashboardAssumption
  <2>5. QED
    BY <1>2, <1>6, <2>1, <2>3, <2>4 DEF LogHolds, LogIsBounded, Revisions
<1>8. QED
  BY <1>1, <1>3, <1>6, <1>7

LEMMA WriteOverEffect ==
  ASSUME LogHolds, WritesHold, log' = log, NEW n \in WriteIds, WriteOver(n),
         writes[n].stage \in {"success", "error"}
  PROVE  WritesHold' /\ Answered' = Answered
<1> DEFINE w == [writes[n] EXCEPT !.stage = "over", !.repo = Nothing, !.revision = 1]
<1>1. writes' = [writes EXCEPT ![n] = w]
  BY DEF WriteOver
<1>2. writes[n] \in Write /\ 1 \in Revisions
  BY DashboardAssumption DEF WritesHold, Revisions
<1>3. w \in Write /\ w.stage = "over" /\ w.revision = 1
  BY <1>2 DEF Write
<1> HIDE DEF w
<1>4. /\ writes' \in [WriteIds -> Write]
      /\ writes'[n] = w
      /\ \A i \in WriteIds : i # n => writes'[i] = writes[i]
  BY <1>1, <1>3 DEF WritesHold
<1>5. Answered' = Answered
  BY <1>3, <1>4 DEF Answered
<1>6. Len(log) >= 1
  BY DEF LogHolds
<1>7. QED
  BY <1>3, <1>4, <1>5, <1>6 DEF WritesHold

LEMMA AnswerListEffect ==
  ASSUME LogHolds, ListsHold, elsewhere \in 0 .. MaxElsewhere, NEW n \in ListIds, AnswerList(n)
  PROVE  /\ ListsHold'
         /\ lists[n].stage = "pending"
         /\ lists'[n].stage \in {"success", "error"}
         /\ lists'[n].mount = lists[n].mount
         /\ lists'[n].stage = "success" => lists'[n].revision = Len(log)
         /\ \A i \in ListIds : i # n => lists'[i] = lists[i]
<1>1. lists[n].stage = "pending" /\ lists[n] \in List /\ log' = log
  BY DEF AnswerList, ListsHold
<1>2. Len(log) \in Revisions
  BY RevisionBound
<1>3. PICK l \in List :
        /\ lists' = [lists EXCEPT ![n] = l]
        /\ l.stage \in {"success", "error"} /\ l.mount = lists[n].mount /\ l.revision =< Len(log)
        /\ l.stage = "success" => l.revision = Len(log)
  <2>1. CASE lists' = [lists EXCEPT ![n].stage = "success", ![n].revision = Revision]
    <3> DEFINE v == Len(log)
               l == [lists[n] EXCEPT !.stage = "success", !.revision = v]
    <3>1. lists' = [lists EXCEPT ![n] = l]
      BY <2>1 DEF Revision
    <3>2. v \in Revisions /\ v =< Len(log)
      BY <1>2 DEF Revisions
    <3>3. l \in List /\ l.stage = "success" /\ l.mount = lists[n].mount /\ l.revision = v
      <4>1. v \in Revisions
        BY <3>2
      <4> HIDE DEF v
      <4>2. QED
        BY <1>1, <4>1 DEF List
    <3> HIDE DEF l
    <3>4. QED
      BY <3>1, <3>2, <3>3
  <2>2. CASE lists' = [lists EXCEPT ![n].stage = "error"]
    <3> DEFINE l == [lists[n] EXCEPT !.stage = "error"]
    <3>1. lists' = [lists EXCEPT ![n] = l]
      BY <2>2
    <3>2. l \in List /\ l.stage = "error" /\ l.mount = lists[n].mount /\ l.revision = lists[n].revision
      BY <1>1 DEF List
    <3> HIDE DEF l
    <3>3. lists[n].revision =< Len(log)
      BY DEF ListsHold
    <3>4. QED
      BY <3>1, <3>2, <3>3
  <2>3. QED
    BY <2>1, <2>2 DEF AnswerList
<1>4. /\ lists' \in [ListIds -> List]
      /\ lists'[n] = l
      /\ \A i \in ListIds : i # n => lists'[i] = lists[i]
  BY <1>3 DEF ListsHold
<1>5. QED
  BY <1>1, <1>3, <1>4 DEF ListsHold

LEMMA ListOverEffect ==
  ASSUME LogHolds, ListsHold, log' = log, NEW n \in ListIds, ListOver(n)
  PROVE  /\ ListsHold'
         /\ lists'[n].stage = "over"
         /\ lists'[n].mount = lists[n].mount
         /\ \A i \in ListIds : i # n => lists'[i] = lists[i]
<1> DEFINE l == [lists[n] EXCEPT !.stage = "over", !.revision = 1]
<1>1. lists' = [lists EXCEPT ![n] = l]
  BY DEF ListOver
<1>2. lists[n] \in List /\ 1 \in Revisions
  BY DashboardAssumption DEF ListsHold, Revisions
<1>3. l \in List /\ l.stage = "over" /\ l.revision = 1 /\ l.mount = lists[n].mount
  BY <1>2 DEF List
<1> HIDE DEF l
<1>4. /\ lists' \in [ListIds -> List]
      /\ lists'[n] = l
      /\ \A i \in ListIds : i # n => lists'[i] = lists[i]
  BY <1>1, <1>3 DEF ListsHold
<1>5. Len(log) >= 1
  BY DEF LogHolds
<1>6. QED
  BY <1>3, <1>4, <1>5 DEF ListsHold

LEMMA LogKept ==
  ASSUME LogHolds, log' = log, elsewhere' = elsewhere, Answered' = Answered
  PROVE  LogHolds'
  BY DEF LogHolds, LogIsBounded

LEMMA InitType == Init => TypeInv
<1> SUFFICES ASSUME Init PROVE TypeInv
  OBVIOUS
<1>1. 1 \in Revisions /\ 1 \in Mounts /\ MaxElsewhere \in Nat /\ Initially \in SUBSET Repos
  BY DashboardAssumption DEF Revisions, Mounts
<1>2. log \in Seq(SUBSET Repos) /\ Len(log) = 1
  BY <1>1 DEF Init
<1>3. Answered = {}
  BY DEF Init, Answered
<1>4. LogHolds
  BY <1>2, <1>3, FS_EmptySet DEF LogHolds, LogIsBounded, Init
<1>5. BoardHolds
  <2>1. /\ board.list = Nothing /\ board.confirming = {} /\ board.done = 1
    BY DEF Init, NewBoard
  <2>2. board \in Board
    BY <1>1 DEF Init, NewBoard, Board
  <2>3. QED
    BY <1>2, <2>1, <2>2 DEF BoardHolds, Rows
<1>6. WritesHold
  BY <1>1, <1>2 DEF Init, WritesHold, Write
<1>7. ListsHold
  BY <1>1, <1>2 DEF Init, ListsHold, List
<1>8. QED
  BY <1>1, <1>4, <1>5, <1>6, <1>7 DEF Init, TypeInv

LEMMA TypeStep == TypeInv /\ [Next]_vars => TypeInv'
<1> SUFFICES ASSUME TypeInv, [Next]_vars PROVE TypeInv'
  OBVIOUS
<1> USE DEF TypeInv
<1>1. CASE BackToDashboard
  <2>1. board.mount + 1 \in Mounts /\ log' = log /\ elsewhere' = elsewhere /\ writes' = writes
    BY <1>1, DashboardAssumption DEF BackToDashboard, BoardHolds, Board, Mounts
  <2>2. BoardHolds'
    BY <1>1, <2>1, NewBoardHolds DEF BackToDashboard
  <2>3. ListsHold'
    BY <1>1, <2>1, RefreshEffect DEF BackToDashboard, Grows, LogHolds
  <2>4. LogHolds' /\ WritesHold'
    BY <2>1, LogKept, WritesKept DEF Answered, Grows
  <2>5. QED
    BY <2>1, <2>2, <2>3, <2>4
<1>2. ASSUME NEW r \in Repos, OpenRepository(r) PROVE TypeInv'
  <2>1. UNCHANGED <<log, elsewhere, writes, lists>> /\ board.mount \in Mounts
    BY <1>2 DEF OpenRepository, BoardHolds, Board
  <2>2. BoardHolds'
    BY <1>2, <2>1, NewBoardHolds DEF OpenRepository
  <2>3. LogHolds' /\ WritesHold' /\ ListsHold'
    BY <2>1, LogKept, WritesKept, ListsKept DEF Answered, Grows
  <2>4. QED
    BY <2>1, <2>2, <2>3
<1>3. ASSUME NEW r \in Repos, Ask(r) \/ Cancel(r) PROVE TypeInv'
  <2>1. UNCHANGED <<log, elsewhere, writes, lists>>
    BY <1>3 DEF Ask, Cancel
  <2>2. PICK c \in SUBSET Rows(board) : c \in SUBSET Repos /\ board' = [board EXCEPT !.confirming = c]
    <3>1. board.confirming \in SUBSET Rows(board) /\ board.confirming \in SUBSET Repos
      BY DEF BoardHolds, Board
    <3>2. CASE Ask(r)
      BY <1>3, <3>1, <3>2 DEF Ask
    <3>3. CASE Cancel(r)
      BY <3>1, <3>3 DEF Cancel
    <3>4. QED
      BY <1>3, <3>2, <3>3
  <2>3. BoardHolds'
    BY <2>1, <2>2, Confirming
  <2>4. LogHolds' /\ WritesHold' /\ ListsHold'
    BY <2>1, LogKept, WritesKept, ListsKept DEF Answered, Grows
  <2>5. QED
    BY <2>1, <2>3, <2>4
<1>4. ASSUME NEW r \in Repos, Elsewhere(r) PROVE TypeInv'
  <2>1. /\ elsewhere' = elsewhere + 1 /\ elsewhere' \in 0 .. MaxElsewhere
        /\ UNCHANGED <<board, writes, lists>>
    BY <1>4, DashboardAssumption DEF Elsewhere
  <2>2. Grows
    BY <1>4, TrackedType DEF Elsewhere, Grows
  <2>3. LogHolds'
    <3>1. Answered' = Answered
      BY <2>1 DEF Answered
    <3>2. Cardinality(Answered) \in Nat
      BY AnsweredIsFinite DEF Answered
    <3>3. log' \in Seq(SUBSET Repos) /\ Len(log') \in Nat /\ Len(log') >= 1 /\ Len(log') =< Len(log) + 1
      BY <2>2, LogEffect DEF LogHolds
    <3>4. QED
      BY <2>1, <3>1, <3>2, <3>3 DEF LogHolds, LogIsBounded
  <2>4. BoardHolds' /\ WritesHold' /\ ListsHold'
    BY <2>1, <2>2, BoardKept, WritesKept, ListsKept
  <2>5. QED
    BY <2>1, <2>3, <2>4
<1>5. ASSUME NEW n \in WriteIds, NEW r \in Repos, Track(n, r) \/ Untrack(n, r) PROVE TypeInv'
  <2>1. UNCHANGED <<log, elsewhere, lists>>
    BY <1>5 DEF Track, Untrack
  <2>2. BoardHolds'
    <3>1. CASE Track(n, r)
      BY <3>1, Submitting DEF Track
    <3>2. CASE Untrack(n, r)
      <4>1. /\ board.confirming \ {r} \in SUBSET Rows(board)
            /\ board.confirming \ {r} \in SUBSET Repos
            /\ board' = [board EXCEPT !.confirming = board.confirming \ {r}]
        BY <3>2 DEF Untrack, BoardHolds, Board
      <4>2. QED
        BY <2>1, <4>1, Confirming
    <3>3. QED
      BY <1>5, <3>1, <3>2
  <2>3. WritesHold' /\ Answered' = Answered
    BY <1>5, <2>1, SendEffect DEF Track, Untrack
  <2>4. LogHolds' /\ ListsHold'
    BY <2>1, <2>3, LogKept, ListsKept DEF Grows
  <2>5. QED
    BY <2>1, <2>2, <2>3, <2>4
<1>6. ASSUME NEW n \in WriteIds, AnswerWrite(n) PROVE TypeInv'
  <2>1. Grows /\ LogHolds' /\ WritesHold'
    BY <1>6, AnswerWriteEffect
  <2>2. UNCHANGED <<elsewhere, board, lists>>
    BY <1>6 DEF AnswerWrite
  <2>3. BoardHolds' /\ ListsHold'
    BY <2>1, <2>2, BoardKept, ListsKept
  <2>4. QED
    BY <2>1, <2>2, <2>3
<1>7. ASSUME NEW n \in WriteIds, DeliverWrite(n) PROVE TypeInv'
  <2>1. UNCHANGED <<log, elsewhere>> /\ writes[n].mount \in Mounts
    BY <1>7 DEF DeliverWrite, WritesHold, Write
  <2>2. BoardHolds'
    BY <1>7, <2>1, ShowWrite DEF DeliverWrite
  <2>3. WritesHold' /\ Answered' = Answered
    BY <1>7, <2>1, WriteOverEffect DEF DeliverWrite
  <2>4. ListsHold'
    <3>1. CASE Refresh(writes[n].mount)
      BY <2>1, <3>1, RefreshEffect DEF Grows, LogHolds
    <3>2. CASE UNCHANGED lists
      BY <2>1, <3>2, ListsKept DEF Grows
    <3>3. QED
      BY <1>7, <3>1, <3>2 DEF DeliverWrite
  <2>5. LogHolds'
    BY <2>1, <2>3, LogKept
  <2>6. QED
    BY <2>1, <2>2, <2>3, <2>4, <2>5
<1>8. ASSUME NEW n \in ListIds, AnswerList(n) PROVE TypeInv'
  <2>1. ListsHold'
    BY <1>8, AnswerListEffect
  <2>2. UNCHANGED <<log, elsewhere, board, writes>>
    BY <1>8 DEF AnswerList
  <2>3. LogHolds' /\ BoardHolds' /\ WritesHold'
    BY <2>2, LogKept, BoardKept, WritesKept DEF Answered, Grows
  <2>4. QED
    BY <2>1, <2>2, <2>3
<1>9. ASSUME NEW n \in ListIds, DeliverList(n) PROVE TypeInv'
  <2>1. UNCHANGED <<log, elsewhere, writes>>
    BY <1>9 DEF DeliverList
  <2>2. ListsHold'
    BY <1>9, <2>1, ListOverEffect DEF DeliverList
  <2>3. BoardHolds'
    <3>1. CASE board' = board
      BY <2>1, <3>1, BoardKept DEF Grows
    <3>2. CASE board' = [board EXCEPT !.error = TRUE]
      BY <2>1, <3>2, ShowError
    <3>3. CASE board' = [board EXCEPT !.list = lists[n].revision, !.from = n, !.error = FALSE,
                                      !.confirming = @ \cap log[lists[n].revision]]
      BY <2>1, <3>3, ShowList
    <3>4. QED
      BY <1>9, <3>1, <3>2, <3>3 DEF DeliverList
  <2>4. LogHolds' /\ WritesHold'
    BY <2>1, LogKept, WritesKept DEF Answered, Grows
  <2>5. QED
    BY <2>1, <2>2, <2>3, <2>4
<1>10. CASE UNCHANGED vars
  <2>1. UNCHANGED <<log, elsewhere, board, writes, lists>>
    BY <1>10 DEF vars
  <2>2. LogHolds' /\ BoardHolds' /\ WritesHold' /\ ListsHold'
    BY <2>1, LogKept, BoardKept, WritesKept, ListsKept DEF Answered, Grows
  <2>3. QED
    BY <2>1, <2>2
<1>11. QED
  BY <1>1, <1>2, <1>3, <1>4, <1>5, <1>6, <1>7, <1>8, <1>9, <1>10 DEF Next

LEMMA TypeInvariance == Spec => []TypeInv
  BY InitType, TypeStep, PTL DEF Spec

\* Type correctness: every revision, request and dashboard stays within its
\* bounds, however many changes other tabs make, and a row asks "Stop tracking?"
\* only while it is shown (DashboardPage.tsx:15-39, ConfirmButton.tsx:15-37).
THEOREM TypeCorrect == Spec => []TypeOK
<1>1. TypeInv => TypeOK
  BY RevisionBound DEF TypeInv, TypeOK, LogHolds, BoardHolds, WritesHold, ListsHold, Revision
<1>2. QED
  BY <1>1, TypeInvariance, PTL

-----------------------------------------------------------------------------
(* The last request for the list. *)

Fresh == SentInOrder /\ ShowsItsOwn /\ LatestIsFresh

\* A step that neither touches the requests for the list nor what is shown of
\* them.
LEMMA NothingNew ==
  ASSUME Fresh, lists' = lists, SameList, board'.done = board.done
  PROVE  Fresh'
<1>1. Sent(board.mount)' = Sent(board.mount)
  BY DEF Sent, SameList
<1>2. SentInOrder'
  BY DEF Fresh, SentInOrder
<1>3. ShowsItsOwn'
  BY <1>1 DEF Fresh, ShowsItsOwn, SameList
<1>4. LatestIsFresh'
  BY <1>1 DEF Fresh, LatestIsFresh, Latest, SameList
<1>5. QED
  BY <1>2, <1>3, <1>4 DEF Fresh

\* A request that is sent becomes the last of its dashboard, and leaves those
\* of another one alone: a dashboard told of a change sends one right then.
LEMMA RefreshIsLatest ==
  ASSUME TypeInv, Fresh, log' = log, NEW m \in Mounts, Refresh(m),
         \/ SameList /\ (board'.done # board.done => board.open /\ board.mount = m)
         \/ board'.mount = m /\ board'.from = Nothing
  PROVE  Fresh'
<1>1. PICK n \in ListIds :
        /\ lists[n].stage = "unsent"
        /\ \A i \in ListIds : i < n => lists[i].stage # "unsent"
        /\ lists'[n].stage = "pending" /\ lists'[n].mount = m
        /\ \A i \in ListIds : i # n => lists'[i] = lists[i]
  BY RefreshEffect DEF TypeInv, Grows, LogHolds
<1>2. ListIds \subseteq Nat /\ Nothing \notin Nat
  BY DashboardAssumption DEF ListIds
<1>3. \A i \in ListIds : lists[i].stage # "unsent" => i < n
  BY <1>1, <1>2 DEF Fresh, SentInOrder
<1>4. SentInOrder'
  <2> SUFFICES ASSUME NEW i \in ListIds, NEW j \in ListIds, i < j, lists'[j].stage # "unsent"
               PROVE  lists'[i].stage # "unsent"
    BY DEF SentInOrder
  <2>1. CASE j = n
    BY <1>1, <1>2, <2>1
  <2>2. CASE j # n
    BY <1>1, <2>2 DEF Fresh, SentInOrder
  <2>3. QED
    BY <2>1, <2>2
<1>5. CASE board'.mount = m
  <2>1. n \in Sent(board.mount)' /\ \A i \in Sent(board.mount)' : i =< n
    BY <1>1, <1>2, <1>3, <1>5 DEF Sent
  <2>2. \A k \in ListIds : Latest(k)' => k = n
    BY <1>2, <2>1 DEF Latest
  <2>3. board'.open => board'.from # n /\
          (board'.from # Nothing => board'.from \in Sent(board.mount)' /\ lists'[board'.from].stage = "over")
    <3>1. CASE board'.from = Nothing
      BY <1>2, <3>1
    <3>2. CASE board'.from # Nothing /\ board'.open
      <4>1. SameList /\ board.open /\ board.from # Nothing
        BY <3>2 DEF SameList
      <4>2. board.from \in Sent(board.mount) /\ lists[board.from].stage = "over"
        BY <4>1 DEF Fresh, ShowsItsOwn
      <4>3. QED
        BY <1>1, <4>1, <4>2 DEF Sent, SameList
    <3>3. QED
      BY <3>1, <3>2
  <2>4. ShowsItsOwn'
    BY <2>1, <2>3 DEF ShowsItsOwn
  <2>5. LatestIsFresh'
    BY <1>1, <2>2, <2>3 DEF LatestIsFresh
  <2>6. QED
    BY <1>4, <2>4, <2>5 DEF Fresh
<1>6. CASE board'.mount # m
  <2>1. SameList /\ board'.done = board.done
    BY <1>6 DEF SameList
  <2>2. Sent(board.mount)' = Sent(board.mount)
    BY <1>1, <1>6, <2>1 DEF Sent, SameList
  <2>3. \A i \in Sent(board.mount) : lists'[i] = lists[i]
    BY <1>1 DEF Sent
  <2>4. ShowsItsOwn'
    BY <2>1, <2>2, <2>3 DEF Fresh, ShowsItsOwn, SameList
  <2>5. LatestIsFresh'
    BY <2>1, <2>2, <2>3 DEF Fresh, LatestIsFresh, Latest, SameList
  <2>6. QED
    BY <1>4, <2>4, <2>5 DEF Fresh
<1>7. QED
  BY <1>5, <1>6

LEMMA FreshStep == TypeInv /\ Fresh /\ [Next]_vars => Fresh'
<1> SUFFICES ASSUME TypeInv, Fresh, [Next]_vars PROVE Fresh'
  OBVIOUS
<1> USE DEF TypeInv
<1>1. CASE BackToDashboard
  <2>1. board.mount + 1 \in Mounts /\ log' = log
    BY <1>1, DashboardAssumption DEF BackToDashboard, BoardHolds, Board, Mounts
  <2>2. board'.mount = board.mount + 1 /\ board'.from = Nothing
    BY <1>1, <2>1, NewBoardHolds DEF BackToDashboard
  <2>3. QED
    BY <1>1, <2>1, <2>2, RefreshIsLatest DEF BackToDashboard
<1>2. ASSUME NEW r \in Repos, OpenRepository(r) PROVE Fresh'
  <2>1. lists' = lists
    BY <1>2 DEF OpenRepository
  <2>2. ~board'.open
    BY <1>2 DEF OpenRepository, NewBoard
  <2>3. QED
    BY <2>1, <2>2 DEF Fresh, SentInOrder, ShowsItsOwn, LatestIsFresh
<1>3. ASSUME NEW r \in Repos, Ask(r) \/ Cancel(r) PROVE Fresh'
  <2>1. UNCHANGED <<log, lists>>
    BY <1>3 DEF Ask, Cancel
  <2>2. PICK c \in SUBSET Rows(board) : c \in SUBSET Repos /\ board' = [board EXCEPT !.confirming = c]
    <3>1. board.confirming \in SUBSET Rows(board) /\ board.confirming \in SUBSET Repos
      BY DEF BoardHolds, Board
    <3>2. CASE Ask(r)
      BY <1>3, <3>1, <3>2 DEF Ask
    <3>3. CASE Cancel(r)
      BY <3>1, <3>3 DEF Cancel
    <3>4. QED
      BY <1>3, <3>2, <3>3
  <2>3. SameList /\ board'.done = board.done
    BY <2>1, <2>2, Confirming
  <2>4. QED
    BY <2>1, <2>3, NothingNew
<1>4. CASE UNCHANGED <<board, lists>>
  BY <1>4, NothingNew DEF SameList
<1>5. ASSUME NEW n \in WriteIds, NEW r \in Repos, Track(n, r) \/ Untrack(n, r) PROVE Fresh'
  <2>1. UNCHANGED <<log, lists>>
    BY <1>5 DEF Track, Untrack
  <2>2. SameList /\ board'.done = board.done
    <3>1. CASE Track(n, r)
      BY <3>1, Submitting DEF Track
    <3>2. CASE Untrack(n, r)
      <4>1. /\ board.confirming \ {r} \in SUBSET Rows(board)
            /\ board.confirming \ {r} \in SUBSET Repos
            /\ board' = [board EXCEPT !.confirming = board.confirming \ {r}]
        BY <3>2 DEF Untrack, BoardHolds, Board
      <4>2. QED
        BY <2>1, <4>1, Confirming
    <3>3. QED
      BY <1>5, <3>1, <3>2
  <2>3. QED
    BY <2>1, <2>2, NothingNew
<1>6. ASSUME NEW n \in WriteIds, DeliverWrite(n) PROVE Fresh'
  <2>1. log' = log /\ writes[n].mount \in Mounts
    BY <1>6 DEF DeliverWrite, WritesHold, Write
  <2>2. /\ SameList
        /\ board'.done # board.done => Mounted(writes[n].mount) /\ writes[n].stage = "success"
    BY <1>6, <2>1, ShowWrite DEF DeliverWrite
  <2>3. CASE writes[n].stage = "success"
    <3>1. Refresh(writes[n].mount)
      BY <1>6, <2>3 DEF DeliverWrite
    <3>2. QED
      BY <2>1, <2>2, <3>1, RefreshIsLatest DEF Mounted
  <2>4. CASE writes[n].stage # "success"
    BY <1>6, <2>2, <2>4, NothingNew DEF DeliverWrite
  <2>5. QED
    BY <2>3, <2>4
<1>7. ASSUME NEW n \in ListIds, AnswerList(n) PROVE Fresh'
  <2>1. /\ lists[n].stage = "pending"
        /\ lists'[n].stage \in {"success", "error"}
        /\ lists'[n].mount = lists[n].mount
        /\ lists'[n].stage = "success" => lists'[n].revision = Len(log)
        /\ \A i \in ListIds : i # n => lists'[i] = lists[i]
    BY <1>7, AnswerListEffect
  <2>2. board' = board
    BY <1>7 DEF AnswerList
  <2>3. Sent(board.mount)' = Sent(board.mount)
    BY <2>1, <2>2 DEF Sent
  <2>4. SentInOrder'
    BY <2>1 DEF Fresh, SentInOrder
  <2>5. ShowsItsOwn'
    BY <2>1, <2>2, <2>3 DEF Fresh, ShowsItsOwn, Sent
  <2>6. LatestIsFresh'
    <3>1. board.done =< Len(log) /\ board.done \in Nat /\ Len(log) \in Nat
      BY DEF BoardHolds, LogHolds, Board, Revisions
    <3>2. \A k \in ListIds : Latest(k)' => Latest(k)
      BY <2>2, <2>3 DEF Latest
    <3>3. QED
      BY <2>1, <2>2, <3>1, <3>2 DEF Fresh, LatestIsFresh
  <2>7. QED
    BY <2>4, <2>5, <2>6 DEF Fresh
<1>8. ASSUME NEW n \in ListIds, DeliverList(n) PROVE Fresh'
  <2>1. log' = log /\ lists[n].stage \in {"success", "error"}
    BY <1>8 DEF DeliverList
  <2>2. /\ lists'[n].stage = "over"
        /\ lists'[n].mount = lists[n].mount
        /\ \A i \in ListIds : i # n => lists'[i] = lists[i]
    BY <1>8, <2>1, ListOverEffect DEF DeliverList
  <2>3. \A m : Sent(m)' = Sent(m)
    BY <2>1, <2>2 DEF Sent
  <2>4. SentInOrder'
    BY <2>1, <2>2 DEF Fresh, SentInOrder
  <2>5. CASE SameList /\ board'.done = board.done
    <3>1. Sent(board.mount)' = Sent(board.mount) /\ \A k : Latest(k)' => Latest(k)
      BY <2>3, <2>5 DEF SameList, Latest, Sent
    <3>2. ShowsItsOwn'
      BY <2>1, <2>2, <2>5, <3>1 DEF Fresh, ShowsItsOwn, SameList, Sent
    <3>3. LatestIsFresh'
      BY <2>1, <2>2, <2>5, <3>1 DEF Fresh, LatestIsFresh, SameList
    <3>4. QED
      BY <2>4, <3>2, <3>3 DEF Fresh
  <2>6. CASE /\ Mounted(lists[n].mount) /\ lists[n].stage = "success"
             /\ board' = [board EXCEPT !.list = lists[n].revision, !.from = n, !.error = FALSE,
                                       !.confirming = @ \cap log[lists[n].revision]]
    <3>1. /\ board'.mount = board.mount
          /\ board'.done = board.done
          /\ board'.from = n
          /\ board'.list = lists[n].revision
      BY <2>1, <2>6, ShowList
    <3>2. Sent(board.mount)' = Sent(board.mount) /\ \A k : Latest(k)' => Latest(k)
      BY <2>3, <3>1 DEF Latest, Sent
    <3>3. board.open /\ n \in Sent(board.mount)
      BY <2>6 DEF Mounted, Sent
    <3>4. ShowsItsOwn'
      BY <2>2, <3>1, <3>2, <3>3 DEF ShowsItsOwn
    <3>5. lists[n].revision # Nothing
      BY DashboardAssumption DEF ListsHold, List, Revisions
    <3>6. LatestIsFresh'
      BY <2>2, <2>6, <3>1, <3>2, <3>3, <3>5 DEF Fresh, LatestIsFresh
    <3>7. QED
      BY <2>4, <3>4, <3>6 DEF Fresh
  <2>7. CASE board' = board
    BY <2>5, <2>7 DEF SameList
  <2>8. CASE board' = [board EXCEPT !.error = TRUE]
    BY <2>1, <2>5, <2>8, ShowError
  <2>9. QED
    BY <1>8, <2>6, <2>7, <2>8 DEF DeliverList
<1>9. QED
  BY <1>1, <1>2, <1>3, <1>4, <1>5, <1>6, <1>7, <1>8 DEF Next, Elsewhere, AnswerWrite, vars

LEMMA InitFresh == Init => Fresh
<1> SUFFICES ASSUME Init PROVE Fresh
  OBVIOUS
<1>1. 1 \in ListIds /\ ListIds \subseteq Nat /\ Nothing \notin Nat
  BY DashboardAssumption DEF ListIds
<1>2. \A n \in ListIds : lists[n].stage = (IF n = 1 THEN "pending" ELSE "unsent") /\ lists[n].mount = 1
  BY DEF Init
<1>3. board.from = Nothing /\ board.mount = 1
  BY DEF Init, NewBoard
<1>4. SentInOrder
  <2> SUFFICES ASSUME NEW m \in ListIds, NEW n \in ListIds, m < n, lists[n].stage # "unsent"
               PROVE  FALSE
    BY DEF SentInOrder
  <2>1. n = 1
    BY <1>2
  <2>2. m \in 1 .. MaxMounts + MaxWrites
    BY DEF ListIds
  <2>3. QED
    BY <2>1, <2>2, DashboardAssumption
<1>5. ShowsItsOwn
  BY <1>1, <1>2, <1>3 DEF ShowsItsOwn, Sent
<1>6. LatestIsFresh
  BY <1>1, <1>2, <1>3 DEF LatestIsFresh
<1>7. QED
  BY <1>4, <1>5, <1>6 DEF Fresh

\* Whatever the interleaving of writes, refreshes, other tabs and returns to
\* the page: a dashboard told of a change asks for the list after that change,
\* so that its last answer, once it is the one shown, includes the change
\* (DashboardPage.tsx:19-39).
THEOREM ListIsFresh == Spec => []FreshList
<1>1. TypeInv /\ Fresh => FreshList
  <2> SUFFICES ASSUME TypeInv, Fresh, Quiet, InOrder
               PROVE  board.list # Nothing /\ board.list >= board.done
    BY DEF FreshList
  <2>1. Sent(board.mount) # {} /\ board.open
    BY DEF Fresh, ShowsItsOwn, Quiet
  <2>2. board.from # Nothing /\ \A n \in Sent(board.mount) : n =< board.from
    BY <2>1 DEF InOrder
  <2>3. board.from \in Sent(board.mount)
    BY <2>1, <2>2 DEF Fresh, ShowsItsOwn
  <2>4. Latest(board.from) /\ board.from \in ListIds
    BY <2>2, <2>3 DEF Latest, Sent
  <2>5. QED
    BY <2>1, <2>4 DEF Fresh, LatestIsFresh
<1>2. QED
  BY <1>1, TypeInvariance, InitFresh, FreshStep, PTL DEF Spec
=============================================================================
