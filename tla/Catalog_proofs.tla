--------------------------- MODULE Catalog_proofs ---------------------------
(***************************************************************************)
(* Proofs about Catalog: type correctness, the two unique keys of the      *)
(* catalog, what a tracking row says of it, and what the answer 409 does.  *)
(***************************************************************************)
EXTENDS Catalog, TLAPS

Tracking == {"fetch", "select", "flush", "recover", "check", "insert"}

\* What a handler holds at each of its statements.
HandlerHolds(q) ==
    LET h == request[q]
    IN  /\ h.phase \notin {"idle", "done"} => h.user \in Users
        /\ h.phase \in Tracking => h.full_name \in Names
        /\ h.phase \in Tracking \ {"fetch"} => h.github_id \in GithubIds
        /\ h.phase \in {"check", "insert", "find", "delete"} => h.row \in Requests
        /\ h.pending => h.phase \in {"check", "insert"} /\ h.row = q
        /\ h.phase = "insert" => h.loaded
        /\ h.phase = "recover" => ~h.loaded

HandlersHold == \A q \in Requests : HandlerHolds(q)

\* A row found, not inserted, is a committed one: of the very repository,
\* unless the handler came by it after a lost race.
RowsAreFound ==
    \A q \in Requests :
        /\ request[q].phase \in {"check", "insert"}
        /\ request[q].loaded /\ ~request[q].pending
        => \E r \in catalog : r.id = request[q].row /\ r.github_id = request[q].github_id

\* A row is committed, and can be tracked, once its request is past its commit.
RowsAreCommitted ==
    /\ \A r \in catalog : request[r.id].phase \in {"refresh", "done"}
    /\ \A x \in tracking : \E r \in catalog : r.id = x[2]

\* No two rows, committed or flushed, share a key.
KeysApart ==
    /\ \A r, s \in catalog : Clash(r, s) => r = s
    /\ \A q \in Requests : request[q].pending => \A r \in catalog : ~Clash(r, NewRow(q))
    /\ \A p, q \in Requests :
          p # q /\ request[p].pending /\ request[q].pending => ~Clash(NewRow(p), NewRow(q))

TypeInv == TypeOK /\ HandlersHold

Inv == TypeInv /\ RowsAreFound /\ RowsAreCommitted /\ KeysApart

-----------------------------------------------------------------------------
(* What each update touches. *)

\* A handler that goes on to its next statement keeps everything else.
LEMMA GotoEffect ==
  ASSUME request \in [Requests -> Handler], NEW q \in Requests, NEW p \in Phases, Goto(q, p)
  PROVE  /\ request' \in [Requests -> Handler]
         /\ \A k \in Requests : k # q => request'[k] = request[k]
         /\ request'[q].phase = p
         /\ request'[q].user = request[q].user
         /\ request'[q].full_name = request[q].full_name
         /\ request'[q].github_id = request[q].github_id
         /\ request'[q].row = request[q].row
         /\ request'[q].pending = request[q].pending
         /\ request'[q].loaded = request[q].loaded
         /\ request'[q].answer = request[q].answer
  BY DEF Goto, Handler

\* An answer ends the transaction and leaves nothing of it.
LEMMA AnswerEffect ==
  ASSUME request \in [Requests -> Handler], NEW q \in Requests, NEW code \in Answers, Answer(q, code)
  PROVE  /\ request' \in [Requests -> Handler]
         /\ \A k \in Requests : k # q => request'[k] = request[k]
         /\ request'[q].phase = "done"
         /\ request'[q].answer = code
         /\ ~request'[q].pending
  BY DEF Answer, NewHandler, Handler, Phases

\* A SELECT that finds a row leads to the check of that row.
LEMMA FoundEffect ==
  ASSUME request \in [Requests -> Handler], NEW q \in Requests, NEW i \in Requests,
         request' = [request EXCEPT ![q].phase = "check", ![q].row = i]
  PROVE  /\ request' \in [Requests -> Handler]
         /\ \A k \in Requests : k # q => request'[k] = request[k]
         /\ request'[q].phase = "check"
         /\ request'[q].row = i
         /\ request'[q].user = request[q].user
         /\ request'[q].full_name = request[q].full_name
         /\ request'[q].github_id = request[q].github_id
         /\ request'[q].pending = request[q].pending
         /\ request'[q].loaded = request[q].loaded
         /\ request'[q].answer = request[q].answer
  BY DEF Handler, Phases

\* An INSERT either goes through, or the rollback expires the objects loaded.
LEMMA FlushEffect ==
  ASSUME request \in [Requests -> Handler], NEW q \in Requests, Flush(q)
  PROVE  /\ request' \in [Requests -> Handler]
         /\ request[q].phase = "flush"
         /\ \A k \in Requests : k # q => request'[k] = request[k]
         /\ request'[q].user = request[q].user
         /\ request'[q].full_name = request[q].full_name
         /\ request'[q].github_id = request[q].github_id
         /\ request'[q].answer = request[q].answer
         /\ \/ /\ request'[q].phase = "recover" /\ ~request'[q].loaded
               /\ request'[q].pending = request[q].pending
               /\ request'[q].row = request[q].row
            \/ /\ request'[q].phase = "check" /\ request'[q].row = q
               /\ request'[q].pending
               /\ request'[q].loaded = request[q].loaded
               /\ \A p \in Requests : request[p].pending => ~Clash(NewRow(p), NewRow(q))
               /\ \A r \in catalog : ~Clash(r, NewRow(q))
         /\ UNCHANGED <<github, renames, catalog, tracking>>
<1>1. CASE \E r \in catalog : Clash(r, NewRow(q))
  <2>1. request' = [request EXCEPT ![q].phase = "recover", ![q].loaded = FALSE]
    BY <1>1 DEF Flush
  <2>2. /\ request' \in [Requests -> Handler]
        /\ \A k \in Requests : k # q => request'[k] = request[k]
        /\ request'[q].phase = "recover" /\ ~request'[q].loaded
        /\ request'[q].user = request[q].user
        /\ request'[q].full_name = request[q].full_name
        /\ request'[q].github_id = request[q].github_id
        /\ request'[q].answer = request[q].answer
        /\ request'[q].row = request[q].row
    BY <2>1 DEF Handler, Phases
  <2>3. request'[q].pending = request[q].pending
    BY <2>1 DEF Handler, Phases
  <2>4. QED
    BY <2>2, <2>3 DEF Flush
<1>2. CASE ~\E r \in catalog : Clash(r, NewRow(q))
  <2> DEFINE h == [request[q] EXCEPT !.phase = "check", !.row = q, !.pending = TRUE]
  <2>1. request' = [request EXCEPT ![q].phase = "check", ![q].row = q, ![q].pending = TRUE]
    BY <1>2 DEF Flush
  <2>2. request' = [request EXCEPT ![q] = h]
    BY <2>1
  <2>3. h \in Handler
    BY DEF Handler, Phases
  <2>4. /\ h.phase = "check" /\ h.row = q
        /\ h.user = request[q].user
        /\ h.full_name = request[q].full_name
        /\ h.github_id = request[q].github_id
        /\ h.answer = request[q].answer
    BY DEF Handler
  <2>5. h.pending = TRUE
    BY SMT DEF Handler
  <2>6. h.loaded = request[q].loaded
    BY DEF Handler
  <2> HIDE DEF h
  <2>7. /\ request' \in [Requests -> Handler]
        /\ \A k \in Requests : k # q => request'[k] = request[k]
        /\ request'[q] = h
    BY <2>2, <2>3
  <2>8. QED
    BY <1>2, <2>4, <2>5, <2>6, <2>7 DEF Flush
<1>3. QED
  BY <1>1, <1>2

\* A commit ends the transaction: nothing of it is pending any more.
Committed(q) ==
    request' = [request EXCEPT ![q].phase = "refresh", ![q].pending = FALSE]

LEMMA CommittedEffect ==
  ASSUME request \in [Requests -> Handler], NEW q \in Requests, Committed(q)
  PROVE  /\ request' \in [Requests -> Handler]
         /\ \A k \in Requests : k # q => request'[k] = request[k]
         /\ request'[q].phase = "refresh"
         /\ ~request'[q].pending
         /\ request'[q].user = request[q].user
         /\ request'[q].answer = request[q].answer
<1> DEFINE h == [request[q] EXCEPT !.phase = "refresh", !.pending = FALSE]
<1>1. request' = [request EXCEPT ![q] = h]
  BY DEF Committed
<1>2. h \in Handler
  BY DEF Handler, Phases
<1>3. h.phase = "refresh" /\ h.user = request[q].user /\ h.answer = request[q].answer
  BY DEF Handler
<1>4. ~h.pending
  BY SMT DEF Handler
<1> HIDE DEF h
<1>5. QED
  BY <1>1, <1>2, <1>3, <1>4

-----------------------------------------------------------------------------
(* One request's step, and what it leaves to the others. *)

Step(q) == SubmitTrack(q) \/ SubmitUntrack(q) \/ HandlerStep(q)

Unaffected(q) == \A k \in Requests : k # q => request'[k] = request[k]

\* A row stays flushed as it is; a row is flushed only when its keys are free.
Flushed(q) ==
    request'[q].pending =>
        /\ request'[q].github_id = request[q].github_id
        /\ request'[q].full_name = request[q].full_name
        /\ \/ request[q].pending
           \/ /\ \A p \in Requests : request[p].pending => ~Clash(NewRow(p), NewRow(q))
              /\ \A r \in catalog : ~Clash(r, NewRow(q))

\* What a step of request q does to the handlers.
Moved(q) ==
    /\ request[q].phase # "done"
    /\ request' \in [Requests -> Handler]
    /\ Unaffected(q)
    /\ HandlerHolds(q)'
    /\ Flushed(q)

LEMMA SubmitTrackMoves ==
  ASSUME TypeInv, NEW q \in Requests, SubmitTrack(q)
  PROVE  Moved(q) /\ request'[q].phase = "fetch" /\ request'[q].answer = request[q].answer
<1>1. PICK u \in Users, n \in Names :
        request' = [request EXCEPT ![q].phase = "fetch", ![q].user = u, ![q].full_name = n]
  BY DEF SubmitTrack
<1>2. request \in [Requests -> Handler] /\ HandlerHolds(q)
  BY DEF TypeInv, TypeOK, HandlersHold
<1>3. /\ request' \in [Requests -> Handler]
      /\ Unaffected(q)
      /\ request'[q].answer = request[q].answer
      /\ request'[q].phase = "fetch" /\ request'[q].user = u /\ request'[q].full_name = n
      /\ request'[q].pending = request[q].pending
  <2> DEFINE h == [request[q] EXCEPT !.phase = "fetch", !.user = u, !.full_name = n]
  <2>1. request' = [request EXCEPT ![q] = h]
    BY <1>1
  <2>2. h \in Handler
    BY <1>2 DEF Handler, Phases
  <2>3. h.phase = "fetch" /\ h.user = u /\ h.full_name = n
        /\ h.answer = request[q].answer
    BY <1>2 DEF Handler
  <2>4. h.pending = request[q].pending
    BY <1>2 DEF Handler
  <2> HIDE DEF h
  <2>5. QED
    BY <1>2, <2>1, <2>2, <2>3, <2>4 DEF Unaffected
<1>4. request[q].phase = "idle" /\ ~request[q].pending
  BY <1>2 DEF SubmitTrack, HandlerHolds
<1>5. HandlerHolds(q)'
  BY <1>3, <1>4 DEF HandlerHolds, Tracking
<1>6. QED
  BY <1>3, <1>4, <1>5 DEF Moved, Flushed

LEMMA SubmitUntrackMoves ==
  ASSUME TypeInv, NEW q \in Requests, SubmitUntrack(q)
  PROVE  Moved(q) /\ request'[q].phase = "find" /\ request'[q].answer = request[q].answer
<1>1. PICK u \in Users, r \in catalog :
        request' = [request EXCEPT ![q].phase = "find", ![q].user = u, ![q].row = r.id]
  BY DEF SubmitUntrack
<1>2. request \in [Requests -> Handler] /\ HandlerHolds(q) /\ r.id \in Requests
  BY DEF TypeInv, TypeOK, HandlersHold, Row
<1>3. /\ request' \in [Requests -> Handler]
      /\ Unaffected(q)
      /\ request'[q].answer = request[q].answer
      /\ request'[q].phase = "find" /\ request'[q].user = u /\ request'[q].row = r.id
      /\ request'[q].pending = request[q].pending
  <2> DEFINE i == r.id
  <2>0. i \in Requests /\ request[q] \in Handler
    BY <1>2
  <2> HIDE DEF i
  <2> DEFINE h == [request[q] EXCEPT !.phase = "find", !.user = u, !.row = i]
  <2>1. request' = [request EXCEPT ![q] = h]
    BY <1>1 DEF i
  <2>2. h \in Handler
    BY <2>0 DEF Handler, Phases
  <2>3. h.phase = "find" /\ h.user = u /\ h.row = i
        /\ h.answer = request[q].answer
    BY <1>2 DEF Handler
  <2>4. h.pending = request[q].pending
    BY <1>2 DEF Handler
  <2> HIDE DEF h
  <2>5. QED
    BY <1>2, <2>1, <2>2, <2>3, <2>4 DEF i, Unaffected
<1>4. request[q].phase = "idle" /\ ~request[q].pending
  BY <1>2 DEF SubmitUntrack, HandlerHolds
<1>5. HandlerHolds(q)'
  BY <1>2, <1>3, <1>4 DEF HandlerHolds, Tracking
<1>6. QED
  BY <1>3, <1>4, <1>5 DEF Moved, Flushed

\* An answer, whatever it is, is a move that flushes nothing.
LEMMA AnswerMoves ==
  ASSUME TypeInv, NEW q \in Requests, NEW code \in Answers, Answer(q, code),
         request[q].phase # "done"
  PROVE  Moved(q) /\ request'[q].phase = "done" /\ request'[q].answer = code
         /\ ~request'[q].pending
<1>1. request \in [Requests -> Handler]
  BY DEF TypeInv, TypeOK
<1>2. QED
  BY <1>1, AnswerEffect DEF Moved, Unaffected, HandlerHolds, Flushed, Tracking

\* Going on from one statement to the next is a move, when the next one finds
\* what it needs.
LEMMA GotoMoves ==
  ASSUME TypeInv, NEW q \in Requests, NEW p \in {"flush", "insert", "delete"}, Goto(q, p),
         \/ request[q].phase = "select" /\ p = "flush"
         \/ request[q].phase = "check" /\ p = "insert" /\ request[q].loaded
         \/ request[q].phase = "find" /\ p = "delete"
  PROVE  Moved(q) /\ request'[q].phase = p
<1>1. request \in [Requests -> Handler] /\ HandlerHolds(q) /\ p \in Phases
  BY DEF TypeInv, TypeOK, HandlersHold, Phases
<1>2. /\ request' \in [Requests -> Handler]
      /\ Unaffected(q)
      /\ request'[q].phase = p
      /\ request'[q].user = request[q].user
      /\ request'[q].full_name = request[q].full_name
      /\ request'[q].github_id = request[q].github_id
      /\ request'[q].row = request[q].row
      /\ request'[q].pending = request[q].pending
      /\ request'[q].loaded = request[q].loaded
  BY <1>1, GotoEffect DEF Unaffected
<1>3. HandlerHolds(q)'
  BY <1>1, <1>2 DEF HandlerHolds, Tracking
<1>4. QED
  BY <1>1, <1>2, <1>3 DEF Moved, Flushed

\* So is finding a committed row.
LEMMA FoundMoves ==
  ASSUME TypeInv, NEW q \in Requests, NEW i \in Requests,
         request' = [request EXCEPT ![q].phase = "check", ![q].row = i],
         request[q].phase \in {"select", "recover"}
  PROVE  Moved(q) /\ request'[q].phase = "check" /\ request'[q].row = i
<1>1. request \in [Requests -> Handler] /\ HandlerHolds(q)
  BY DEF TypeInv, TypeOK, HandlersHold
<1>2. /\ request' \in [Requests -> Handler]
      /\ Unaffected(q)
      /\ request'[q].phase = "check" /\ request'[q].row = i
      /\ request'[q].user = request[q].user
      /\ request'[q].full_name = request[q].full_name
      /\ request'[q].github_id = request[q].github_id
      /\ request'[q].pending = request[q].pending
  BY <1>1, FoundEffect DEF Unaffected
<1>3. ~request[q].pending
  BY <1>1 DEF HandlerHolds
<1>4. HandlerHolds(q)'
  BY <1>1, <1>2, <1>3 DEF HandlerHolds, Tracking
<1>5. QED
  BY <1>1, <1>2, <1>3, <1>4 DEF Moved, Flushed

LEMMA FlushMoves ==
  ASSUME TypeInv, NEW q \in Requests, Flush(q)
  PROVE  Moved(q)
<1>1. request \in [Requests -> Handler] /\ HandlerHolds(q)
  BY DEF TypeInv, TypeOK, HandlersHold
<1>2. /\ request' \in [Requests -> Handler]
      /\ request[q].phase = "flush"
      /\ Unaffected(q)
      /\ request'[q].user = request[q].user
      /\ request'[q].full_name = request[q].full_name
      /\ request'[q].github_id = request[q].github_id
      /\ \/ /\ request'[q].phase = "recover" /\ ~request'[q].loaded
            /\ request'[q].pending = request[q].pending
         \/ /\ request'[q].phase = "check" /\ request'[q].row = q
            /\ request'[q].pending
            /\ \A p \in Requests : request[p].pending => ~Clash(NewRow(p), NewRow(q))
            /\ \A r \in catalog : ~Clash(r, NewRow(q))
  BY <1>1, FlushEffect DEF Unaffected
<1>3. ~request[q].pending
  BY <1>1, <1>2 DEF HandlerHolds
<1>4. HandlerHolds(q)'
  BY <1>1, <1>2, <1>3 DEF HandlerHolds, Tracking
<1>5. QED
  BY <1>2, <1>3, <1>4 DEF Moved, Flushed

LEMMA FetchMoves ==
  ASSUME TypeInv, NEW q \in Requests, Fetch(q)
  PROVE  Moved(q) /\ request'[q].answer \in {"404", request[q].answer}
<1> DEFINE g == github[request[q].full_name]
<1>1. request[q] \in Handler /\ request \in [Requests -> Handler] /\ HandlerHolds(q)
  BY DEF TypeInv, TypeOK, HandlersHold
<1>2. request[q].phase = "fetch"
  BY DEF Fetch
<1>3. CASE g = Nothing
  <2>1. Answer(q, "404")
    BY <1>3 DEF Fetch
  <2>2. QED
    BY <2>1, <1>2, AnswerMoves DEF Answers
<1>4. CASE g # Nothing
  <2>1. request' = [request EXCEPT ![q].phase = "select", ![q].github_id = g]
    BY <1>4 DEF Fetch
  <2>2. g \in GithubIds
    <3>1. request[q].full_name \in Names
      BY <1>1, <1>2 DEF HandlerHolds, Tracking
    <3>2. QED
      BY <1>4, <3>1 DEF TypeInv, TypeOK
  <2> HIDE DEF g
  <2> DEFINE h == [request[q] EXCEPT !.phase = "select", !.github_id = g]
  <2>3. request' = [request EXCEPT ![q] = h]
    BY <2>1
  <2>4. h \in Handler
    BY <1>1, <2>2 DEF Handler, Phases
  <2>5. h.phase = "select" /\ h.github_id = g /\ h.user = request[q].user
        /\ h.full_name = request[q].full_name /\ h.answer = request[q].answer
    BY <1>1 DEF Handler
  <2>6. h.pending = request[q].pending
    BY <1>1 DEF Handler
  <2> HIDE DEF h
  <2>7. request' \in [Requests -> Handler] /\ Unaffected(q) /\ request'[q] = h
    BY <1>1, <2>3, <2>4 DEF Unaffected
  <2>8. ~request[q].pending
    BY <1>1, <1>2 DEF HandlerHolds
  <2>9. HandlerHolds(q)'
    BY <1>1, <1>2, <2>2, <2>5, <2>6, <2>7, <2>8 DEF HandlerHolds, Tracking
  <2>10. QED
    BY <1>2, <2>5, <2>6, <2>7, <2>8, <2>9 DEF Moved, Flushed
<1>5. QED
  BY <1>3, <1>4

LEMMA CommittedMoves ==
  ASSUME TypeInv, NEW q \in Requests, Committed(q), request[q].phase = "insert"
  PROVE  Moved(q) /\ request'[q].phase = "refresh" /\ ~request'[q].pending
         /\ request'[q].answer = request[q].answer
<1>1. request \in [Requests -> Handler] /\ HandlerHolds(q)
  BY DEF TypeInv, TypeOK, HandlersHold
<1>2. /\ request' \in [Requests -> Handler]
      /\ Unaffected(q)
      /\ request'[q].phase = "refresh"
      /\ ~request'[q].pending
      /\ request'[q].user = request[q].user
      /\ request'[q].answer = request[q].answer
  BY <1>1, CommittedEffect DEF Unaffected
<1>3. HandlerHolds(q)'
  BY <1>1, <1>2 DEF HandlerHolds, Tracking
<1>4. QED
  BY <1>2, <1>3 DEF Moved, Flushed

\* Every step of a request is a move of its handler alone.
LEMMA StepMoves ==
  ASSUME TypeInv, NEW q \in Requests, Step(q)
  PROVE  Moved(q)
<1>0. \A r \in catalog : r.id \in Requests
  BY DEF TypeInv, TypeOK, Row
<1>1. CASE SubmitTrack(q)
  BY <1>1, SubmitTrackMoves
<1>2. CASE SubmitUntrack(q)
  BY <1>2, SubmitUntrackMoves
<1>3. CASE Fetch(q)
  BY <1>3, FetchMoves
<1>4. CASE FetchFails(q)
  BY <1>4, AnswerMoves DEF FetchFails, Answers
<1>5. CASE Select(q)
  <2>1. request[q].phase = "select"
    BY <1>5 DEF Select
  <2>2. CASE Goto(q, "flush")
    BY <2>1, <2>2, GotoMoves
  <2>3. CASE \E r \in catalog : request' = [request EXCEPT ![q].phase = "check", ![q].row = r.id]
    BY <1>0, <2>1, <2>3, FoundMoves
  <2>4. QED
    BY <1>5, <2>2, <2>3 DEF Select
<1>6. CASE Flush(q)
  BY <1>6, FlushMoves
<1>7. CASE Recover(q)
  <2>1. request[q].phase = "recover"
    BY <1>7 DEF Recover
  <2>2. CASE Answer(q, "500")
    BY <2>1, <2>2, AnswerMoves DEF Answers
  <2>3. CASE \E r \in catalog : request' = [request EXCEPT ![q].phase = "check", ![q].row = r.id]
    BY <1>0, <2>1, <2>3, FoundMoves
  <2>4. QED
    BY <1>7, <2>2, <2>3 DEF Recover
<1>8. CASE Check(q)
  <2>1. request[q].phase = "check"
    BY <1>8 DEF Check
  <2>2. CASE Answer(q, "500") \/ Answer(q, "409")
    BY <2>1, <2>2, AnswerMoves DEF Answers
  <2>3. CASE request[q].loaded /\ Goto(q, "insert")
    BY <2>1, <2>3, GotoMoves
  <2>4. QED
    BY <1>8, <2>2, <2>3 DEF Check
<1>9. CASE Insert(q)
  <2>1. request[q].phase = "insert" /\ (Answer(q, "409") \/ Committed(q))
    BY <1>9 DEF Insert, Committed
  <2>2. QED
    BY <2>1, AnswerMoves, CommittedMoves DEF Answers
<1>10. CASE FindTracking(q)
  <2>1. request[q].phase = "find" /\ (Goto(q, "delete") \/ Answer(q, "204"))
    BY <1>10 DEF FindTracking
  <2>2. QED
    BY <2>1, AnswerMoves, GotoMoves DEF Answers
<1>11. CASE DeleteTracking(q)
  BY <1>11, AnswerMoves DEF DeleteTracking, Answers
<1>12. CASE DbFails(q)
  BY <1>12, AnswerMoves DEF DbFails, Answers
<1>13. CASE Refresh(q)
  BY <1>13, AnswerMoves DEF Refresh, Answers
<1>14. QED
  BY <1>1, <1>2, <1>3, <1>4, <1>5, <1>6, <1>7, <1>8, <1>9, <1>10, <1>11, <1>12, <1>13
  DEF Step, HandlerStep

\* What a step of a request does to the tables: only its commit writes.
LEMMA StepWrites ==
  ASSUME TypeInv, NEW q \in Requests, Step(q)
  PROVE  /\ UNCHANGED <<github, renames>>
         /\ \/ UNCHANGED <<catalog, tracking>>
            \/ UNCHANGED catalog /\ tracking' \subseteq tracking
            \/ /\ request[q].phase = "insert" /\ ~Tracked(q) /\ Committed(q)
               /\ catalog' = IF request[q].pending THEN catalog \cup {NewRow(q)} ELSE catalog
               /\ tracking' = tracking \cup {<<request[q].user, request[q].row>>}
<1>1. CASE SubmitTrack(q) \/ SubmitUntrack(q)
  BY <1>1 DEF SubmitTrack, SubmitUntrack
<1>2. CASE Insert(q)
  BY <1>2 DEF Insert, Committed
<1>3. CASE DeleteTracking(q)
  BY <1>3 DEF DeleteTracking
<1>4. CASE Fetch(q) \/ FetchFails(q) \/ Select(q) \/ Flush(q) \/ Recover(q)
  BY <1>4 DEF Fetch, FetchFails, Select, Flush, Recover
<1>5. CASE Check(q) \/ Refresh(q) \/ FindTracking(q) \/ DbFails(q)
  BY <1>5 DEF Check, Refresh, FindTracking, DbFails
<1>6. QED
  BY <1>1, <1>2, <1>3, <1>4, <1>5 DEF Step, HandlerStep

-----------------------------------------------------------------------------
(* The inductive invariant. *)

LEMMA InitInv == Init => Inv
<1> SUFFICES ASSUME Init PROVE Inv
  OBVIOUS
<1>1. request \in [Requests -> Handler]
  BY DEF Init, NewHandler, Handler, Phases, Answers
<1>2. \A q \in Requests : request[q].phase = "idle" /\ ~request[q].pending
  BY DEF Init, NewHandler
<1>3. HandlersHold
  BY <1>2 DEF HandlersHold, HandlerHolds, Tracking
<1>4. TypeOK
  BY <1>1, CatalogBounds DEF TypeOK, Init
<1>5. RowsAreFound /\ RowsAreCommitted /\ KeysApart
  BY <1>2 DEF Init, RowsAreFound, RowsAreCommitted, KeysApart
<1>6. QED
  BY <1>3, <1>4, <1>5 DEF Inv, TypeInv

\* The row a request inserts is a row.
LEMMA NewRowType ==
  ASSUME TypeInv, NEW q \in Requests, request[q].phase = "insert"
  PROVE  NewRow(q) \in Row /\ request[q].user \in Users /\ request[q].row \in Requests
  BY DEF TypeInv, TypeOK, HandlersHold, HandlerHolds, Tracking, NewRow, Row

LEMMA TypeStep == TypeInv /\ [Next]_vars => TypeInv'
<1> SUFFICES ASSUME TypeInv, [Next]_vars PROVE TypeInv'
  OBVIOUS
<1>1. ASSUME NEW q \in Requests, Step(q) PROVE TypeInv'
  <2>1. Moved(q)
    BY <1>1, StepMoves
  <2>2. HandlersHold'
    <3>1. ASSUME NEW k \in Requests, k # q PROVE HandlerHolds(k)'
      <4>1. request'[k] = request[k] /\ HandlerHolds(k)
        BY <2>1, <3>1 DEF Moved, Unaffected, TypeInv, HandlersHold
      <4>2. QED
        BY <4>1 DEF HandlerHolds
    <3>2. QED
      BY <2>1, <3>1 DEF Moved, HandlersHold
  <2>3. catalog' \subseteq Row /\ tracking' \subseteq Users \X Requests
    BY <1>1, StepWrites, NewRowType DEF TypeInv, TypeOK
  <2>4. UNCHANGED <<github, renames>>
    BY <1>1, StepWrites
  <2>5. QED
    BY <2>1, <2>2, <2>3, <2>4 DEF Moved, TypeInv, TypeOK
<1>2. ASSUME NEW g \in GithubIds, NEW n \in Names, Rename(g, n) PROVE TypeInv'
  <2>1. github' \in [Names -> GithubIds \cup {Nothing}] /\ renames' \in 0 .. MaxRenames
    BY <1>2, CatalogBounds DEF Rename, TypeInv, TypeOK
  <2>2. UNCHANGED <<catalog, tracking, request>>
    BY <1>2 DEF Rename
  <2>3. HandlersHold'
    BY <2>2 DEF TypeInv, HandlersHold, HandlerHolds
  <2>4. QED
    BY <2>1, <2>2, <2>3 DEF TypeInv, TypeOK
<1>3. CASE UNCHANGED vars
  BY <1>3 DEF vars, TypeInv, TypeOK, HandlersHold, HandlerHolds
<1>4. QED
  BY <1>1, <1>2, <1>3 DEF Next, Step

\* A handler that goes on with a row it did not insert has just found it, or
\* found it before.
LEMMA StepFinds ==
  ASSUME TypeInv, RowsAreFound, NEW q \in Requests, Step(q),
         request'[q].phase \in {"check", "insert"},
         request'[q].loaded, ~request'[q].pending
  PROVE  \E r \in catalog : r.id = request'[q].row /\ r.github_id = request'[q].github_id
<1>0. request \in [Requests -> Handler] /\ HandlerHolds(q) /\ (\A r \in catalog : r.id \in Requests)
  BY DEF TypeInv, TypeOK, HandlersHold, Row
<1>1. CASE Select(q)
  <2>1. CASE Goto(q, "flush")
    BY <1>0, <2>1, GotoEffect DEF Phases
  <2>2. CASE \E r \in catalog :
               /\ r.github_id = request[q].github_id
               /\ request' = [request EXCEPT ![q].phase = "check", ![q].row = r.id]
    <3>1. PICK r \in catalog :
            /\ r.github_id = request[q].github_id
            /\ request' = [request EXCEPT ![q].phase = "check", ![q].row = r.id]
      BY <2>2
    <3>2. PICK i \in Requests : i = r.id
      BY <1>0
    <3>3. request' = [request EXCEPT ![q].phase = "check", ![q].row = i]
      BY <3>1, <3>2
    <3>4. request'[q].row = i /\ request'[q].github_id = request[q].github_id
      BY <1>0, <3>3, FoundEffect
    <3>5. QED
      BY <3>1, <3>2, <3>4
  <2>3. QED
    BY <1>1, <2>1, <2>2 DEF Select
<1>2. CASE Check(q)
  <2>1. CASE request[q].loaded /\ Goto(q, "insert")
    <3>1. request[q].phase = "check" /\ ~request[q].pending
      BY <1>0, <1>2, <2>1, GotoEffect DEF Check, Phases
    <3>2. PICK r \in catalog : r.id = request[q].row /\ r.github_id = request[q].github_id
      BY <2>1, <3>1 DEF RowsAreFound
    <3>3. QED
      BY <1>0, <2>1, <3>2, GotoEffect DEF Phases
  <2>2. CASE Answer(q, "500") \/ Answer(q, "409")
    BY <1>0, <2>2, AnswerEffect DEF Answers
  <2>3. QED
    BY <1>2, <2>1, <2>2 DEF Check
<1>3. CASE Recover(q)
  <2>1. ~request[q].loaded
    BY <1>0, <1>3 DEF Recover, HandlerHolds
  <2>2. CASE Answer(q, "500")
    BY <1>0, <2>2, AnswerEffect DEF Answers
  <2>3. CASE \E r \in catalog : request' = [request EXCEPT ![q].phase = "check", ![q].row = r.id]
    BY <1>0, <2>1, <2>3, FoundEffect
  <2>4. QED
    BY <1>3, <2>2, <2>3 DEF Recover
<1>4. CASE Flush(q)
  BY <1>0, <1>4, FlushEffect
<1>5. CASE Fetch(q)
  <2>1. request'[q].phase \in {"done", "select"}
    BY <1>0, <1>5, AnswerEffect DEF Fetch, Answers, Handler
  <2>2. QED
    BY <2>1
<1>6. CASE SubmitTrack(q) \/ SubmitUntrack(q)
  <2>1. request'[q].phase \in {"fetch", "find"}
    BY <1>6, SubmitTrackMoves, SubmitUntrackMoves
  <2>2. QED
    BY <2>1
<1>7. CASE \E code \in Answers : Answer(q, code)
  BY <1>0, <1>7, AnswerEffect
<1>8. CASE FindTracking(q)
  <2>1. Goto(q, "delete") \/ Answer(q, "204")
    BY <1>8 DEF FindTracking
  <2>2. QED
    BY <1>0, <1>7, <2>1, GotoEffect DEF Phases, Answers
<1>9. CASE FetchFails(q) \/ Refresh(q) \/ DeleteTracking(q) \/ DbFails(q)
  BY <1>7, <1>9 DEF FetchFails, Refresh, DeleteTracking, DbFails, Answers
<1>10. CASE Insert(q)
  <2>1. Answer(q, "409") \/ Committed(q)
    BY <1>10 DEF Insert, Committed
  <2>2. QED
    BY <1>0, <1>7, <2>1, CommittedEffect DEF Answers
<1>11. QED
  BY <1>1, <1>2, <1>3, <1>4, <1>5, <1>6, <1>8, <1>9, <1>10 DEF Step, HandlerStep

LEMMA FoundStep == TypeInv /\ RowsAreFound /\ [Next]_vars => RowsAreFound'
<1> SUFFICES ASSUME TypeInv, RowsAreFound, [Next]_vars PROVE RowsAreFound'
  OBVIOUS
<1>1. ASSUME NEW q \in Requests, Step(q) PROVE RowsAreFound'
  <2>1. catalog \subseteq catalog'
    BY <1>1, StepWrites
  <2>2. ASSUME NEW k \in Requests, request'[k].phase \in {"check", "insert"},
               request'[k].loaded, ~request'[k].pending
        PROVE  \E r \in catalog : r.id = request'[k].row /\ r.github_id = request'[k].github_id
    <3>1. CASE k = q
      BY <1>1, <2>2, <3>1, StepFinds
    <3>2. CASE k # q
      <4>1. request'[k] = request[k]
        BY <1>1, <3>2, StepMoves DEF Moved, Unaffected
      <4>2. QED
        BY <2>2, <4>1 DEF RowsAreFound
    <3>3. QED
      BY <3>1, <3>2
  <2>3. QED
    BY <2>1, <2>2 DEF RowsAreFound
<1>2. CASE UNCHANGED <<catalog, request>>
  BY <1>2 DEF RowsAreFound
<1>3. QED
  BY <1>1, <1>2 DEF Next, Step, vars, Rename

\* After its commit a request has only its answer left to give.
LEMMA StepAfterCommit ==
  ASSUME TypeInv, NEW q \in Requests, Step(q), request[q].phase = "refresh"
  PROVE  request'[q].phase = "done"
<1>1. Refresh(q) \/ DbFails(q)
  BY DEF Step, HandlerStep, SubmitTrack, SubmitUntrack, Fetch, FetchFails, Select, Flush,
         Recover, Check, Insert, FindTracking, DeleteTracking
<1>2. Answer(q, "201") \/ Answer(q, "500")
  BY <1>1 DEF Refresh, DbFails
<1>3. QED
  BY <1>2, AnswerEffect DEF TypeInv, TypeOK, Answers

LEMMA CommittedStep == TypeInv /\ RowsAreFound /\ RowsAreCommitted /\ [Next]_vars => RowsAreCommitted'
<1> SUFFICES ASSUME TypeInv, RowsAreFound, RowsAreCommitted, [Next]_vars PROVE RowsAreCommitted'
  OBVIOUS
<1>1. ASSUME NEW q \in Requests, Step(q) PROVE RowsAreCommitted'
  <2>1. request[q].phase # "done" /\ \A k \in Requests : k # q => request'[k] = request[k]
    BY <1>1, StepMoves DEF Moved, Unaffected
  <2>2. \A r \in catalog : request'[r.id].phase \in {"refresh", "done"}
    <3>1. request[q].phase = "refresh" => request'[q].phase = "done"
      BY <1>1, StepAfterCommit
    <3>2. QED
      BY <2>1, <3>1 DEF RowsAreCommitted, TypeInv, TypeOK, Row
  <2>3. CASE UNCHANGED catalog /\ tracking' \subseteq tracking
    BY <2>2, <2>3 DEF RowsAreCommitted
  <2>4. CASE /\ request[q].phase = "insert" /\ Committed(q)
             /\ catalog' = IF request[q].pending THEN catalog \cup {NewRow(q)} ELSE catalog
             /\ tracking' = tracking \cup {<<request[q].user, request[q].row>>}
    <3>1. request'[q].phase = "refresh"
      BY <2>4, CommittedEffect DEF TypeInv, TypeOK
    <3>2. \A r \in catalog' : request'[r.id].phase \in {"refresh", "done"}
      BY <2>2, <2>4, <3>1 DEF NewRow
    <3>3. \E r \in catalog' : r.id = request[q].row
      <4>1. CASE request[q].pending
        <5>1. request[q].row = q /\ NewRow(q) \in catalog'
          BY <2>4, <4>1 DEF TypeInv, HandlersHold, HandlerHolds
        <5>2. QED
          BY <5>1 DEF NewRow
      <4>2. CASE ~request[q].pending
        <5>1. request[q].loaded
          BY <2>4 DEF TypeInv, HandlersHold, HandlerHolds
        <5>2. QED
          BY <2>4, <4>2, <5>1 DEF RowsAreFound
      <4>3. QED
        BY <4>1, <4>2
    <3>4. \A x \in tracking' : \E r \in catalog' : r.id = x[2]
      BY <2>4, <3>3 DEF RowsAreCommitted
    <3>5. QED
      BY <3>2, <3>4 DEF RowsAreCommitted
  <2>5. QED
    BY <1>1, <2>3, <2>4, StepWrites
<1>2. CASE UNCHANGED <<catalog, tracking, request>>
  BY <1>2 DEF RowsAreCommitted
<1>3. QED
  BY <1>1, <1>2 DEF Next, Step, vars, Rename

\* A flushed row keeps its keys for itself until it is committed.
LEMMA KeysStep == TypeInv /\ KeysApart /\ [Next]_vars => KeysApart'
<1> SUFFICES ASSUME TypeInv, KeysApart, [Next]_vars PROVE KeysApart'
  OBVIOUS
<1>1. ASSUME NEW q \in Requests, Step(q) PROVE KeysApart'
  <2>1. Unaffected(q) /\ Flushed(q)
    BY <1>1, StepMoves DEF Moved
  <2>2. ASSUME NEW p \in Requests, request'[p].pending
        PROVE  /\ NewRow(p)' = NewRow(p)
               /\ \A r \in catalog : ~Clash(r, NewRow(p))
               /\ \A k \in Requests : k # p /\ request'[k].pending =>
                     NewRow(k)' = NewRow(k) /\ ~Clash(NewRow(k), NewRow(p))
    <3>1. \A k \in Requests : request'[k].pending => NewRow(k)' = NewRow(k)
      BY <2>1 DEF Unaffected, Flushed, NewRow
    <3>2. \A r \in catalog : ~Clash(r, NewRow(p))
      BY <2>1, <2>2 DEF Unaffected, Flushed, KeysApart
    <3>3. ASSUME NEW k \in Requests, k # p, request'[k].pending
          PROVE  ~Clash(NewRow(k), NewRow(p))
      <4>1. CASE k # q /\ p # q
        BY <2>1, <2>2, <3>3, <4>1 DEF Unaffected, KeysApart
      <4>2. CASE p = q
        <5>1. request[k].pending
          BY <2>1, <3>3, <4>2 DEF Unaffected
        <5>2. CASE request[p].pending
          BY <3>3, <5>1, <5>2 DEF KeysApart
        <5>3. CASE ~request[p].pending
          BY <2>1, <2>2, <4>2, <5>1, <5>3 DEF Flushed
        <5>4. QED
          BY <5>2, <5>3
      <4>3. CASE k = q
        <5>1. request[p].pending
          BY <2>1, <2>2, <3>3, <4>3 DEF Unaffected
        <5>2. CASE request[k].pending
          BY <3>3, <5>1, <5>2 DEF KeysApart
        <5>3. CASE ~request[k].pending
          <6>1. ~Clash(NewRow(p), NewRow(k))
            BY <2>1, <3>3, <4>3, <5>1, <5>3 DEF Flushed
          <6>2. QED
            BY <6>1 DEF Clash
        <5>4. QED
          BY <5>2, <5>3
      <4>4. QED
        BY <4>1, <4>2, <4>3
    <3>4. QED
      BY <2>2, <3>1, <3>2, <3>3
  <2>3. CASE UNCHANGED catalog
    BY <2>2, <2>3 DEF KeysApart, Clash
  <2>4. CASE /\ request[q].phase = "insert" /\ Committed(q)
             /\ catalog' = IF request[q].pending THEN catalog \cup {NewRow(q)} ELSE catalog
    <3>1. CASE ~request[q].pending
      BY <2>3, <2>4, <3>1
    <3>2. CASE request[q].pending
      <4>1. ~request'[q].pending
        BY <2>4, CommittedEffect DEF TypeInv, TypeOK
      <4>2. \A r \in catalog : ~Clash(r, NewRow(q))
        BY <3>2 DEF KeysApart
      <4>3. catalog' = catalog \cup {NewRow(q)}
        BY <2>4, <3>2
      <4>4. \A r, s \in catalog' : Clash(r, s) => r = s
        BY <4>2, <4>3 DEF KeysApart, Clash
      <4>5. ASSUME NEW p \in Requests, request'[p].pending
            PROVE  \A r \in catalog' : ~Clash(r, NewRow(p)')
        <5>1. p # q /\ request[p].pending
          BY <2>1, <4>1, <4>5 DEF Unaffected
        <5>2. ~Clash(NewRow(q), NewRow(p))
          BY <3>2, <5>1 DEF KeysApart
        <5>3. QED
          BY <2>2, <4>3, <4>5, <5>2
      <4>6. QED
        BY <2>2, <4>4, <4>5 DEF KeysApart, Clash
    <3>3. QED
      BY <3>1, <3>2
  <2>5. QED
    BY <1>1, <2>3, <2>4, StepWrites
<1>2. CASE UNCHANGED <<catalog, request>>
  BY <1>2 DEF KeysApart, NewRow, Clash
<1>3. QED
  BY <1>1, <1>2 DEF Next, Step, vars, Rename

LEMMA Invariance == Spec => []Inv
<1>1. Inv /\ [Next]_vars => Inv'
  BY TypeStep, FoundStep, CommittedStep, KeysStep DEF Inv
<1>2. QED
  BY InitInv, <1>1, PTL DEF Spec

-----------------------------------------------------------------------------
(* Theorems. *)

\* Type correctness: the handlers of POST and DELETE /me/repositories and the
\* two tables never hold anything else, for any numbers of users, requests,
\* repositories and names (services/repositories.py:23-90).
THEOREM TypeCorrect == Spec => []TypeOK
<1>1. Inv => TypeOK
  BY DEF Inv, TypeInv
<1>2. QED
  BY <1>1, Invariance, PTL

\* The two unique constraints of repositories hold of the committed rows and
\* of those that open transactions have flushed, together, whatever overlaps
\* (services/repositories.py:29-51).
THEOREM Keyed == Spec => []CatalogIsKeyed
<1>1. Inv => CatalogIsKeyed
  <2> SUFFICES ASSUME Inv,
                      NEW r \in catalog \cup {NewRow(q) : q \in {p \in Requests : request[p].pending}},
                      NEW s \in catalog \cup {NewRow(q) : q \in {p \in Requests : request[p].pending}},
                      Clash(r, s)
               PROVE  r = s
    BY DEF CatalogIsKeyed
  <2>1. KeysApart
    BY DEF Inv
  <2>2. Clash(s, r)
    BY DEF Clash
  <2>3. CASE r \in catalog /\ s \in catalog
    BY <2>1, <2>3 DEF KeysApart
  <2>4. ASSUME NEW q \in Requests, request[q].pending, r \in catalog, s = NewRow(q) PROVE FALSE
    BY <2>1, <2>4 DEF KeysApart
  <2>5. ASSUME NEW q \in Requests, request[q].pending, s \in catalog, r = NewRow(q) PROVE FALSE
    BY <2>1, <2>2, <2>5 DEF KeysApart
  <2>6. ASSUME NEW p \in Requests, NEW q \in Requests, request[p].pending, request[q].pending,
               r = NewRow(p), s = NewRow(q)
        PROVE  r = s
    BY <2>1, <2>6 DEF KeysApart
  <2>7. QED
    BY <2>3, <2>4, <2>5, <2>6
<1>2. QED
  BY <1>1, Invariance, PTL

\* Which statement gives the answer 409, and what it has seen.
LEMMA StepAnswers ==
  ASSUME TypeInv, NEW q \in Requests, Step(q),
         request[q].answer # "409", request'[q].answer = "409"
  PROVE  request[q].phase \in {"check", "insert"} /\ request[q].loaded /\ Tracked(q)
<1>0. request \in [Requests -> Handler] /\ HandlerHolds(q) /\ (\A r \in catalog : r.id \in Requests)
  BY DEF TypeInv, TypeOK, HandlersHold, Row
<1>1. ASSUME NEW p \in Phases PROVE ~Goto(q, p)
  BY <1>0, <1>1, GotoEffect
<1>2. ASSUME NEW r \in catalog PROVE request' # [request EXCEPT ![q].phase = "check", ![q].row = r.id]
  <2>1. PICK i \in Requests : i = r.id
    BY <1>0
  <2>2. request' # [request EXCEPT ![q].phase = "check", ![q].row = i]
    BY <1>0, FoundEffect
  <2>3. QED
    BY <2>1, <2>2
<1>3. ~Answer(q, "404") /\ ~Answer(q, "502") /\ ~Answer(q, "500") /\ ~Answer(q, "204")
      /\ ~Answer(q, "201")
  BY <1>0, AnswerEffect DEF Answers
<1>4. ~SubmitTrack(q) /\ ~SubmitUntrack(q) /\ ~Fetch(q)
  BY SubmitTrackMoves, SubmitUntrackMoves, FetchMoves
<1>5. ~FetchFails(q) /\ ~Refresh(q) /\ ~DbFails(q) /\ ~DeleteTracking(q)
  BY <1>3 DEF FetchFails, Refresh, DbFails, DeleteTracking
<1>6. ~Select(q) /\ ~Recover(q) /\ ~FindTracking(q)
  BY <1>1, <1>2, <1>3 DEF Select, Recover, FindTracking, Phases
<1>7. ~Flush(q)
  BY <1>0, FlushEffect
<1>8. CASE Check(q)
  BY <1>1, <1>3, <1>8 DEF Check, Phases
<1>9. CASE Insert(q)
  <2>1. request[q].phase = "insert" /\ request[q].loaded
    BY <1>0, <1>9 DEF Insert, HandlerHolds
  <2>2. ~Committed(q)
    BY <1>0, CommittedEffect
  <2>3. QED
    BY <1>9, <2>1, <2>2 DEF Insert, Committed
<1>10. QED
  BY <1>4, <1>5, <1>6, <1>7, <1>8, <1>9 DEF Step, HandlerStep

\* Only the request itself moves its handler.
LEMMA OwnStep ==
  ASSUME TypeInv, [Next]_vars, NEW q \in Requests, request'[q] # request[q]
  PROVE  Step(q)
<1>1. ~UNCHANGED request
  OBVIOUS
<1>2. PICK p \in Requests : Step(p)
  BY <1>1 DEF Next, Step, Rename, vars
<1>3. QED
  BY <1>2, StepMoves DEF Moved, Unaffected

\* A tracking request at its check or its insert that holds the row of the
\* catalog it asked for, or is about to commit it.
LEMMA RowHeld ==
  ASSUME Inv, NEW q \in Requests, request[q].phase \in {"check", "insert"}, request[q].loaded
  PROVE  \/ request[q].pending /\ request[q].row = q
         \/ \E r \in catalog : r.id = request[q].row /\ r.github_id = request[q].github_id
  BY DEF Inv, TypeInv, HandlersHold, HandlerHolds, RowsAreFound

\* What a request tracks is the very GitHub repository that the submitted name
\* stood for when it was fetched, so the fallback that the docstring admits
\* (a row that merely has the name) is never taken as far as a tracking row:
\* the check of an expired user fails (services/repositories.py:41-78).
THEOREM Tracks == Spec => TracksWhatWasAsked
<1>1. Inv /\ [Next]_vars =>
        [\A q \in Requests, x \in tracking' \ tracking : request'[q] # request[q] =>
            \E r \in catalog' :
                /\ x = <<request[q].user, r.id>>
                /\ \/ r.github_id = request[q].github_id
                   \/ /\ r.full_name = request[q].full_name
                      /\ \A s \in catalog : s.github_id # request[q].github_id]_vars
  <2> SUFFICES ASSUME Inv, [Next]_vars, NEW q \in Requests, NEW x \in tracking' \ tracking,
                      request'[q] # request[q]
               PROVE  \E r \in catalog' : /\ x = <<request[q].user, r.id>>
                                          /\ r.github_id = request[q].github_id
    OBVIOUS
  <2>1. Step(q)
    BY OwnStep DEF Inv
  <2>2. /\ request[q].phase = "insert"
        /\ catalog' = IF request[q].pending THEN catalog \cup {NewRow(q)} ELSE catalog
        /\ x = <<request[q].user, request[q].row>>
    BY <2>1, StepWrites DEF Inv
  <2>3. request[q].loaded
    BY <2>2 DEF Inv, TypeInv, HandlersHold, HandlerHolds
  <2>4. CASE request[q].pending /\ request[q].row = q
    <3>1. NewRow(q) \in catalog' /\ NewRow(q).github_id = request[q].github_id /\ NewRow(q).id = q
      BY <2>2, <2>4 DEF NewRow
    <3>2. QED
      BY <2>2, <2>4, <3>1
  <2>5. CASE \E r \in catalog : r.id = request[q].row /\ r.github_id = request[q].github_id
    BY <2>2, <2>5
  <2>6. QED
    BY <2>2, <2>3, <2>4, <2>5, RowHeld
<1>2. QED
  BY <1>1, Invariance, PTL DEF Spec, TracksWhatWasAsked

\* A row of the catalog is committed together with the tracking row of the
\* request that inserted it (services/repositories.py:70-72).
THEOREM RowsTracked == Spec => RowsComeTracked
<1>1. Inv /\ [Next]_vars =>
        [\A r \in catalog' \ catalog : <<request[r.id].user, r.id>> \in tracking']_vars
  <2> SUFFICES ASSUME Inv, [Next]_vars, NEW r \in catalog' \ catalog
               PROVE  <<request[r.id].user, r.id>> \in tracking'
    OBVIOUS
  <2>1. PICK q \in Requests : Step(q)
    BY DEF Next, Step, Rename, vars
  <2>2. /\ request[q].pending
        /\ r = NewRow(q)
        /\ tracking' = tracking \cup {<<request[q].user, request[q].row>>}
    BY <2>1, StepWrites DEF Inv
  <2>3. request[q].row = q /\ r.id = q
    BY <2>2 DEF Inv, TypeInv, HandlersHold, HandlerHolds, NewRow
  <2>4. QED
    BY <2>2, <2>3
<1>2. QED
  BY <1>1, Invariance, PTL DEF Spec, RowsComeTracked

\* A 409 is answered only to a user who tracks that very repository: the row
\* a request has flushed itself cannot be tracked yet
\* (services/repositories.py:61-75).
THEOREM OwnConflict == Spec => ConflictIsOwn
<1>1. Inv /\ [Next]_vars =>
        [\A q \in Requests : request[q].answer # "409" /\ request'[q].answer = "409" =>
            \E r \in catalog : /\ r.github_id = request[q].github_id
                               /\ <<request[q].user, r.id>> \in tracking]_vars
  <2> SUFFICES ASSUME Inv, [Next]_vars, NEW q \in Requests,
                      request[q].answer # "409", request'[q].answer = "409"
               PROVE  \E r \in catalog : /\ r.github_id = request[q].github_id
                                         /\ <<request[q].user, r.id>> \in tracking
    OBVIOUS
  <2>1. Step(q)
    BY OwnStep DEF Inv
  <2>2. request[q].phase \in {"check", "insert"} /\ request[q].loaded
        /\ <<request[q].user, request[q].row>> \in tracking
    BY <2>1, StepAnswers DEF Inv, Tracked
  <2>3. ~(request[q].pending /\ request[q].row = q)
    <3> SUFFICES ASSUME request[q].row = q PROVE FALSE
      OBVIOUS
    <3>1. PICK r \in catalog : r.id = q
      BY <2>2 DEF Inv, RowsAreCommitted
    <3>2. request[q].phase \in {"refresh", "done"}
      BY <3>1 DEF Inv, RowsAreCommitted
    <3>3. QED
      BY <2>2, <3>2
  <2>4. QED
    BY <2>2, <2>3, RowHeld
<1>2. QED
  BY <1>1, Invariance, PTL DEF Spec, ConflictIsOwn
=============================================================================
