--------------------------- MODULE SearchFSProofs ----------------------------
(***************************************************************************)
(* The catalog search for every number of threads, matches and matches per *)
(* page: every match is processed once, and how wrong the count may be.    *)
(***************************************************************************)
EXTENDS SearchFS, FiniteSetTheorems, SequenceTheorems, TLAPS

-----------------------------------------------------------------------------
(* What is true of every reachable state *)

SearchTypeOK ==
    /\ mpc \in {"search", "check", "submit", "wait", "returned", "aborted"}
    /\ cursor \in 1 .. NumFiles + 1
    /\ found \in Seq(Nat) /\ queue \in Seq(Nat)
    /\ pool \subseteq Workers
    /\ wpc \in [Workers -> {"idle", "load", "store", "open", "close"}]
    /\ wfile \in [Workers -> Nat] /\ wcount \in [Workers -> Nat]
    /\ num_files \in Nat
    /\ visits \in [1 .. NumFiles -> Nat]

\* The first match no thread has taken: those behind it are queued, then those
\* of the page in hand, and the cursor is behind both.
NextFile == cursor - Len(found) - Len(queue)

Pages ==
    /\ NextFile >= 1
    /\ \A i \in 1 .. Len(queue) : queue[i] = NextFile + i - 1
    /\ \A i \in 1 .. Len(found) : found[i] = NextFile + Len(queue) + i - 1
    /\ mpc = "search" => found = <<>> /\ (START => cursor = 1)
    /\ mpc = "submit" => ~START
    /\ mpc \in {"check", "submit"} /\ res = "ok" => cursor = NumFiles + 1
    /\ mpc \in {"wait", "returned"} => found = <<>> /\ cursor = NumFiles + 1
    /\ mpc = "returned" => NoTasks

\* The threads that have a task, and the matches they have it for.
Busy(w) == wpc[w] # "idle"
InHand(f) == \E w \in pool : Busy(w) /\ wfile[w] = f

\* Each match taken is in the hands of one thread or has been visited once.
Tasks ==
    /\ \A w \in pool : Busy(w) => wfile[w] \in 1 .. NextFile - 1
    /\ \A v, w \in pool : Busy(v) /\ Busy(w) /\ wfile[v] = wfile[w] => v = w
    /\ \A f \in 1 .. NumFiles : visits[f] = IF f < NextFile /\ ~InHand(f) THEN 1 ELSE 0
    /\ fds = {w \in pool : wpc[w] = "close"}

\* The matches whose thread has stored its count.
Counting(w) == wpc[w] \in {"load", "store"}
Counted == {f \in 1 .. NextFile - 1 : \A w \in pool : Counting(w) => wfile[w] # f}

\* No count is ahead of the matches counted, not even one that is loaded and
\* not stored yet; alone, a thread loses none.
Counts ==
    /\ num_files <= Cardinality(Counted)
    /\ \A w \in pool : wpc[w] = "store" => wcount[w] <= Cardinality(Counted)
    /\ Counted # {} => num_files >= 1
    /\ Cardinality(pool) = 1 =>
           /\ num_files = Cardinality(Counted)
           /\ \A w \in pool : wpc[w] = "store" => wcount[w] = num_files

SearchInv == SearchTypeOK /\ Pages /\ Tasks /\ Counts
-----------------------------------------------------------------------------
(* Pages and the queue *)

\* A page is a sequence of consecutive matches.
LEMMA PageType ==
    ASSUME NEW k \in Nat, From \in Nat \ {0}
    PROVE  /\ Page(k) \in Seq(Nat) /\ Len(Page(k)) = k
           /\ \A i \in 1 .. k : Page(k)[i] = From + i - 1
<1>1. \A i \in 1 .. k : From + i - 1 \in Nat
  OBVIOUS
<1>2. Page(k) \in [1 .. k -> Nat]
  BY <1>1 DEF Page
<1>3. Page(k) \in Seq(Nat)
  BY <1>2, SeqDef
<1>4. Len(Page(k)) = k
  BY <1>2, <1>3, LenProperties
<1>5. QED
  BY <1>3, <1>4 DEF Page

\* What a call finds: nothing is in hand, and the page starts at the cursor.
LEMMA SearchFinds ==
    ASSUME SearchTypeOK, Pages, Search
    PROVE  \E k \in Nat : /\ found = <<>> /\ cursor' = cursor + k /\ cursor' \in 1 .. NumFiles + 1
                          /\ found' \in Seq(Nat) /\ Len(found') = k
                          /\ \A i \in 1 .. k : found'[i] = cursor + i - 1
                          /\ res' = "ok" => cursor' = NumFiles + 1
<1>1. mpc = "search" /\ found = <<>> /\ From = cursor /\ cursor \in 1 .. NumFiles + 1
  BY DEF Search, Pages, From, SearchTypeOK
<1>2. PICK result \in {"ok", "EAGAIN", "EBUSY", "EIO"}, k \in PageSizes :
          /\ Searchfs(result, k)
          /\ res' = result
          /\ found' = Page(k)
          /\ cursor' = From + k
  BY DEF Search
<1>3. k \in Nat /\ From + k <= NumFiles + 1
  BY <1>2, SearchAssumption DEF PageSizes
<1>4. From \in Nat \ {0}
  BY <1>1, SearchAssumption
<1>5. result = "ok" => From + k = NumFiles + 1
  BY <1>2 DEF Searchfs
<1>6. found' \in Seq(Nat) /\ Len(found') = k /\ \A i \in 1 .. k : found'[i] = cursor + i - 1
  BY <1>1, <1>2, <1>3, <1>4, PageType
<1>7. cursor' = cursor + k /\ cursor' \in 1 .. NumFiles + 1
  BY <1>1, <1>2, <1>3, SearchAssumption
<1>8. res' = "ok" => cursor' = NumFiles + 1
  BY <1>1, <1>2, <1>5
<1>9. QED
  BY <1>1, <1>3, <1>6, <1>7, <1>8

\* A match handed to the pool goes from the head of the page to the end of the queue.
LEMMA SubmitMoves ==
    ASSUME SearchTypeOK, Submit, found # <<>>
    PROVE  /\ queue' \in Seq(Nat) /\ Len(queue') = Len(queue) + 1
           /\ queue'[Len(queue')] = found[1]
           /\ \A i \in 1 .. Len(queue) : queue'[i] = queue[i]
           /\ found' \in Seq(Nat) /\ Len(found') = Len(found) - 1
           /\ \A i \in 1 .. Len(found') : found'[i] = found[i + 1]
<1>1. queue' = Append(queue, Head(found)) /\ found' = Tail(found)
  BY DEF Submit
<1>2. found \in Seq(Nat) /\ queue \in Seq(Nat)
  BY DEF SearchTypeOK
<1>3. /\ Head(found) \in Nat /\ Head(found) = found[1]
      /\ Tail(found) \in Seq(Nat) /\ Len(Tail(found)) = Len(found) - 1
      /\ \A i \in 1 .. Len(Tail(found)) : Tail(found)[i] = found[i + 1]
  BY <1>2, HeadTailProperties
<1>4. QED
  BY <1>1, <1>2, <1>3, AppendProperties

\* A thread takes the oldest task.
LEMMA TakeMoves ==
    ASSUME SearchTypeOK, NEW w \in pool, TakeTask(w)
    PROVE  /\ queue # <<>> /\ Len(queue) \in Nat \ {0}
           /\ wfile' = [wfile EXCEPT ![w] = queue[1]] /\ queue[1] \in Nat
           /\ queue' \in Seq(Nat) /\ Len(queue') = Len(queue) - 1
           /\ \A i \in 1 .. Len(queue') : queue'[i] = queue[i + 1]
<1>1. queue # <<>> /\ queue' = Tail(queue) /\ wfile' = [wfile EXCEPT ![w] = Head(queue)]
  BY DEF TakeTask
<1>2. queue \in Seq(Nat)
  BY DEF SearchTypeOK
<1>3. /\ Head(queue) \in Nat /\ Head(queue) = queue[1]
      /\ Tail(queue) \in Seq(Nat) /\ Len(Tail(queue)) = Len(queue) - 1
      /\ \A i \in 1 .. Len(Tail(queue)) : Tail(queue)[i] = queue[i + 1]
  BY <1>1, <1>2, HeadTailProperties
<1>4. Len(queue) \in Nat \ {0}
  BY <1>1, <1>2, EmptySeq
<1>5. QED
  BY <1>1, <1>3, <1>4

\* The pool starts with nothing to do.
LEMMA SearchInit == Init => SearchTypeOK /\ Pages /\ Tasks
<1> SUFFICES ASSUME Init PROVE SearchTypeOK /\ Pages /\ Tasks
  OBVIOUS
<1> USE SearchAssumption DEF Init
<1>1. SearchTypeOK
  BY DEF SearchTypeOK
<1>2. NextFile = 1
  BY DEF NextFile
<1>3. Pages
  BY <1>2 DEF Pages
<1>4. Tasks
  BY <1>2 DEF Tasks, Busy
<1>5. QED
  BY <1>1, <1>3, <1>4

\* Every step keeps the types, and the matches in order; only a thread that
\* takes a task moves on to the next file.
LEMMA PagesStep ==
    SearchTypeOK /\ Pages /\ Tasks /\ [Next]_vars =>
        SearchTypeOK' /\ Pages' /\ (NextFile' = NextFile \/ \E w \in pool : TakeTask(w))
<1> SUFFICES ASSUME SearchTypeOK, Pages, Tasks, [Next]_vars
             PROVE  /\ SearchTypeOK' /\ Pages'
                    /\ NextFile' = NextFile \/ \E w \in pool : TakeTask(w)
  OBVIOUS
<1> USE DEF main, workers
<1>t. /\ NumFiles \in Nat /\ cursor \in Nat /\ cursor <= NumFiles + 1
      /\ Len(found) \in Nat /\ Len(queue) \in Nat /\ NextFile \in Nat \ {0}
      /\ NextFile = cursor - Len(found) - Len(queue)
  BY SearchAssumption DEF SearchTypeOK, Pages, NextFile
<1>q. ASSUME UNCHANGED <<cursor, queue, found, mpc, res, START, pool>>, mpc # "returned"
      PROVE  NextFile' = NextFile /\ Pages'
  BY <1>q DEF NextFile, Pages
<1>1. CASE Search
  <2>1. PICK k \in Nat : /\ found = <<>> /\ cursor' = cursor + k /\ cursor' \in 1 .. NumFiles + 1
                         /\ found' \in Seq(Nat) /\ Len(found') = k
                         /\ \A i \in 1 .. k : found'[i] = cursor + i - 1
                         /\ res' = "ok" => cursor' = NumFiles + 1
    BY <1>1, SearchFinds
  <2>2. mpc' = "check" /\ UNCHANGED <<START, queue, workers, volume, pool>>
    BY <1>1 DEF Search
  <2>3. SearchTypeOK'
    BY <2>1, <2>2 DEF SearchTypeOK
  <2>4. NextFile' = NextFile
    BY <1>t, <2>1, <2>2 DEF NextFile
  <2>5. Pages'
    <3>1. \A i \in 1 .. Len(queue') : queue'[i] = NextFile' + i - 1
      BY <2>2, <2>4 DEF Pages
    <3>2. \A i \in 1 .. Len(found') : found'[i] = NextFile' + Len(queue') + i - 1
      BY <1>t, <2>1, <2>2, <2>4
    <3>3. QED
      BY <1>t, <2>1, <2>2, <2>4, <3>1, <3>2 DEF Pages
  <2>6. QED
    BY <2>3, <2>4, <2>5
<1>2. CASE Check
  BY <1>2 DEF Check, SearchTypeOK, Pages, NextFile
<1>3. CASE Submit
  <2>1. CASE found # <<>>
    <3>1. mpc = "submit" /\ UNCHANGED <<mpc, res, START, cursor, workers, pool>>
      BY <1>3, <2>1 DEF Submit
    <3>2. /\ queue' \in Seq(Nat) /\ Len(queue') = Len(queue) + 1
          /\ queue'[Len(queue')] = found[1]
          /\ \A i \in 1 .. Len(queue) : queue'[i] = queue[i]
          /\ found' \in Seq(Nat) /\ Len(found') = Len(found) - 1
          /\ \A i \in 1 .. Len(found') : found'[i] = found[i + 1]
      BY <1>3, <2>1, SubmitMoves
    <3>3. SearchTypeOK'
      BY <3>1, <3>2 DEF SearchTypeOK
    <3>4. NextFile' = NextFile
      BY <1>t, <3>1, <3>2 DEF NextFile
    <3>5. Len(found) >= 1
      BY <2>1, EmptySeq, LenProperties DEF SearchTypeOK
    <3>6. \A i \in 1 .. Len(queue') : queue'[i] = NextFile' + i - 1
      <4>1. \A i \in 1 .. Len(queue) : queue'[i] = NextFile' + i - 1
        BY <3>2, <3>4 DEF Pages
      <4>2. found[1] = NextFile + Len(queue) + 1 - 1
        BY <1>t, <3>5 DEF Pages
      <4>3. queue'[Len(queue')] = NextFile' + Len(queue') - 1
        BY <1>t, <3>2, <3>4, <4>2
      <4>4. \A i \in 1 .. Len(queue') : i \in 1 .. Len(queue) \/ i = Len(queue')
        BY <1>t, <3>2
      <4>5. QED
        BY ONLY <4>1, <4>3, <4>4
    <3>7. \A i \in 1 .. Len(found') : found'[i] = NextFile' + Len(queue') + i - 1
      BY <1>t, <3>2, <3>4 DEF Pages
    <3>8. QED
      BY <3>1, <3>3, <3>4, <3>6, <3>7 DEF Pages
  <2>2. CASE found = <<>>
    <3>1. /\ mpc = "submit" /\ mpc' = (IF res = "ok" THEN "wait" ELSE "search")
          /\ UNCHANGED <<queue, found, res, START, cursor, workers, pool>>
      BY <1>3, <2>2 DEF Submit
    <3>2. SearchTypeOK'
      BY <3>1 DEF SearchTypeOK
    <3>3. NextFile' = NextFile
      BY <3>1 DEF NextFile
    <3>4. Pages'
      BY <2>2, <3>1, <3>3 DEF Pages
    <3>5. QED
      BY <3>2, <3>3, <3>4
  <2>3. QED
    BY <2>1, <2>2
<1>4. CASE WaitForTasks
  <2>1. NextFile' = NextFile
    BY <1>4 DEF WaitForTasks, NextFile
  <2>2. Pages'
    BY <1>4, <2>1 DEF WaitForTasks, Pages, NoTasks
  <2>3. QED
    BY <1>4, <2>1, <2>2 DEF WaitForTasks, SearchTypeOK
<1>r. ASSUME NEW w \in pool, wpc[w] # "idle" \/ queue # <<>> PROVE mpc # "returned"
  BY <1>r DEF Pages, NoTasks
<1>5. ASSUME NEW w \in pool, TakeTask(w) PROVE SearchTypeOK' /\ Pages'
  <2>1. /\ queue # <<>> /\ Len(queue) \in Nat \ {0}
        /\ wfile' = [wfile EXCEPT ![w] = queue[1]] /\ queue[1] \in Nat
        /\ queue' \in Seq(Nat) /\ Len(queue') = Len(queue) - 1
        /\ \A i \in 1 .. Len(queue') : queue'[i] = queue[i + 1]
    BY <1>5, TakeMoves
  <2>2. /\ wpc' = [wpc EXCEPT ![w] = "load"] /\ mpc # "returned"
        /\ UNCHANGED <<main, wcount, num_files, fds, visits, volume, pool>>
    BY <1>5, <1>r DEF TakeTask
  <2>3. SearchTypeOK'
    BY <2>1, <2>2 DEF SearchTypeOK
  <2>4. NextFile' = NextFile + 1
    BY <1>t, <2>1, <2>2 DEF NextFile
  <2>5. \A i \in 1 .. Len(queue') : queue'[i] = NextFile' + i - 1
    BY <1>t, <2>1, <2>4 DEF Pages
  <2>6. \A i \in 1 .. Len(found') : found'[i] = NextFile' + Len(queue') + i - 1
    <3>1. NextFile' + Len(queue') = NextFile + Len(queue) /\ found' = found
      BY <1>t, <2>1, <2>2, <2>4
    <3>2. QED
      BY <3>1 DEF Pages
  <2>7. QED
    BY <1>t, <2>2, <2>3, <2>4, <2>5, <2>6 DEF Pages
<1>6. ASSUME NEW w \in pool, CountLoad(w)
      PROVE  SearchTypeOK' /\ NextFile' = NextFile /\ Pages'
  BY <1>6, <1>q, <1>r DEF CountLoad, SearchTypeOK
<1>7. ASSUME NEW w \in pool, CountStore(w)
      PROVE  SearchTypeOK' /\ NextFile' = NextFile /\ Pages'
  BY <1>7, <1>q, <1>r DEF CountStore, SearchTypeOK
<1>v. ASSUME NEW w \in pool, Busy(w)
      PROVE  [visits EXCEPT ![wfile[w]] = @ + 1] \in [1 .. NumFiles -> Nat]
  <2>1. wfile[w] \in 1 .. NumFiles
    BY <1>t, <1>v DEF Tasks
  <2>2. QED
    BY <2>1 DEF SearchTypeOK
<1>8. ASSUME NEW w \in pool, Open(w)
      PROVE  SearchTypeOK' /\ NextFile' = NextFile /\ Pages'
  <2>1. visits' \in [1 .. NumFiles -> Nat]
    BY <1>8, <1>v DEF Open, Busy, SearchTypeOK
  <2>2. QED
    BY <1>8, <1>q, <1>r, <2>1 DEF Open, SearchTypeOK
<1>9. ASSUME NEW w \in pool, Close(w)
      PROVE  SearchTypeOK' /\ NextFile' = NextFile /\ Pages'
  <2>1. visits' \in [1 .. NumFiles -> Nat]
    BY <1>9, <1>v DEF Close, Busy, SearchTypeOK
  <2>2. QED
    BY <1>9, <1>q, <1>r, <2>1 DEF Close, SearchTypeOK
<1>10. CASE UNCHANGED vars
  BY <1>10 DEF vars, SearchTypeOK, Pages, NextFile, NoTasks
<1>11. QED
  BY <1>1, <1>2, <1>3, <1>4, <1>5, <1>6, <1>7, <1>8, <1>9, <1>10
  DEF Next, Main, Worker
-----------------------------------------------------------------------------
(* The tasks *)

\* Whatever leaves the pool alone leaves its tasks alone.
LEMMA TasksUnchanged ==
    ASSUME Tasks, NextFile' = NextFile, UNCHANGED <<wpc, wfile, fds, visits, pool>>
    PROVE  Tasks'
BY DEF Tasks, InHand, Busy

\* A step of a thread with a task, which stays in its hands.
LEMMA TasksKept ==
    ASSUME Tasks, SearchTypeOK, NEW w \in pool, Busy(w), NextFile' = NextFile,
           wpc' \in [Workers -> {"idle", "load", "store", "open", "close"}],
           \A v \in pool : Busy(v)' <=> Busy(v),
           fds' = {v \in pool : wpc'[v] = "close"},
           UNCHANGED <<wfile, visits, pool>>
    PROVE  Tasks'
<1>1. \A f : InHand(f)' <=> InHand(f)
  BY DEF InHand
<1>2. QED
  BY <1>1 DEF Tasks

\* A task that ends: its match has been visited, and nobody else has it.
LEMMA TaskEnds ==
    ASSUME Tasks, SearchTypeOK, NEW w \in pool, Busy(w), NextFile' = NextFile, NextFile \in Nat,
           wpc' = [wpc EXCEPT ![w] = "idle"],
           visits' = [visits EXCEPT ![wfile[w]] = @ + 1],
           fds' = fds \ {w},
           UNCHANGED <<wfile, pool>>
    PROVE  Tasks'
<1>1. /\ wpc \in [Workers -> {"idle", "load", "store", "open", "close"}] /\ pool \subseteq Workers
      /\ visits \in [1 .. NumFiles -> Nat]
  BY DEF SearchTypeOK
<1>2. wpc'[w] = "idle" /\ \A v \in pool \ {w} : wpc'[v] = wpc[v]
  BY <1>1
<1>3. ~Busy(w)' /\ \A v \in pool \ {w} : Busy(v)' <=> Busy(v)
  BY <1>2 DEF Busy
<1>4. \A f : InHand(f)' <=> InHand(f) /\ f # wfile[w]
  BY <1>3 DEF InHand, Tasks
<1>5. InHand(wfile[w]) /\ wfile[w] < NextFile
  BY DEF InHand, Tasks
<1>6. ASSUME NEW f \in 1 .. NumFiles
      PROVE  visits'[f] = IF f < NextFile' /\ ~InHand(f)' THEN 1 ELSE 0
  <2>1. visits[f] = IF f < NextFile /\ ~InHand(f) THEN 1 ELSE 0
    BY DEF Tasks
  <2>2. CASE f = wfile[w]
    BY <1>1, <1>4, <1>5, <2>1, <2>2
  <2>3. CASE f # wfile[w]
    BY <1>1, <1>4, <2>1, <2>3
  <2>4. QED
    BY <2>2, <2>3
<1>7. fds' = {v \in pool : wpc'[v] = "close"}
  BY <1>2 DEF Tasks
<1>8. /\ \A v \in pool : Busy(v)' => wfile[v] \in 1 .. NextFile - 1
      /\ \A u, v \in pool : Busy(u)' /\ Busy(v)' /\ wfile[u] = wfile[v] => u = v
  BY <1>3 DEF Tasks
<1>9. QED
  BY <1>6, <1>7, <1>8 DEF Tasks

\* A thread that was idle has the next match in hand.
LEMMA TaskTaken ==
    ASSUME Tasks, SearchTypeOK, Pages, NEW w \in pool, TakeTask(w)
    PROVE  /\ NextFile' = NextFile + 1 /\ NextFile \in Nat \ {0}
           /\ wfile' = [wfile EXCEPT ![w] = NextFile]
           /\ Tasks'
<1>1. /\ queue # <<>> /\ Len(queue) \in Nat \ {0}
      /\ wfile' = [wfile EXCEPT ![w] = queue[1]]
      /\ queue' \in Seq(Nat) /\ Len(queue') = Len(queue) - 1
  BY TakeMoves
<1>2. /\ wpc[w] = "idle" /\ wpc' = [wpc EXCEPT ![w] = "load"]
      /\ UNCHANGED <<cursor, found, fds, visits, pool>>
  BY DEF TakeTask, main
<1>3. /\ cursor \in Nat /\ Len(found) \in Nat /\ NextFile \in Nat \ {0}
  BY SearchAssumption DEF SearchTypeOK, Pages, NextFile
<1>4. NextFile' = NextFile + 1
  BY <1>1, <1>2, <1>3 DEF NextFile
<1>5. queue[1] = NextFile
  BY <1>1, <1>3 DEF Pages
<1>6. /\ wpc \in [Workers -> {"idle", "load", "store", "open", "close"}] /\ pool \subseteq Workers
      /\ wfile \in [Workers -> Nat]
  BY DEF SearchTypeOK
<1>7. /\ Busy(w)' /\ ~Busy(w) /\ wfile'[w] = NextFile
      /\ \A v \in pool \ {w} : (Busy(v)' <=> Busy(v)) /\ wfile'[v] = wfile[v]
  BY <1>1, <1>2, <1>5, <1>6 DEF Busy
<1>8. \A v \in pool : Busy(v) => wfile[v] \in 1 .. NextFile - 1
  BY DEF Tasks
<1>9. \A v \in pool : Busy(v)' => wfile'[v] \in 1 .. NextFile' - 1
  BY <1>3, <1>4, <1>7, <1>8
<1>10. \A u, v \in pool : Busy(u)' /\ Busy(v)' /\ wfile'[u] = wfile'[v] => u = v
  <2>1. \A v \in pool \ {w} : Busy(v)' => wfile'[v] # NextFile
    BY <1>3, <1>7, <1>8
  <2>2. \A u, v \in pool : Busy(u) /\ Busy(v) /\ wfile[u] = wfile[v] => u = v
    BY DEF Tasks
  <2>3. QED
    BY <1>7, <2>1, <2>2
<1>11. \A f : InHand(f)' <=> InHand(f) \/ f = NextFile
  BY <1>2, <1>7 DEF InHand
<1>12. ASSUME NEW f \in 1 .. NumFiles
       PROVE  visits'[f] = IF f < NextFile' /\ ~InHand(f)' THEN 1 ELSE 0
  <2>1. visits[f] = IF f < NextFile /\ ~InHand(f) THEN 1 ELSE 0
    BY DEF Tasks
  <2>2. QED
    BY <1>2, <1>3, <1>4, <1>11, <2>1
<1>13. fds' = {v \in pool : wpc'[v] = "close"}
  BY <1>2, <1>6 DEF Tasks
<1>14. Tasks'
  BY <1>2, <1>9, <1>10, <1>12, <1>13 DEF Tasks
<1>15. QED
  BY <1>1, <1>3, <1>4, <1>5, <1>14

\* Each match taken is in one thread's hands until it has been visited once.
LEMMA TasksStep ==
    SearchTypeOK /\ Pages /\ Tasks /\ [Next]_vars => Tasks'
<1> SUFFICES ASSUME SearchTypeOK, Pages, Tasks, [Next]_vars PROVE Tasks'
  OBVIOUS
<1> USE DEF main, workers
<1>t. /\ wpc \in [Workers -> {"idle", "load", "store", "open", "close"}] /\ pool \subseteq Workers
      /\ SearchTypeOK' /\ NextFile \in Nat
  <2>1. SearchTypeOK'
    BY PagesStep
  <2>2. NextFile \in Nat
    BY SearchAssumption DEF SearchTypeOK, Pages, NextFile
  <2>3. QED
    BY <2>1, <2>2 DEF SearchTypeOK
<1>1. CASE Main \/ UNCHANGED vars
  <2>1. UNCHANGED <<wpc, wfile, fds, visits, pool>> /\ \A w \in pool : ~TakeTask(w)
    BY <1>1, <1>t DEF Main, Search, Check, Submit, WaitForTasks, vars, TakeTask
  <2>2. QED
    BY <2>1, PagesStep, TasksUnchanged
<1>2. ASSUME NEW w \in pool, TakeTask(w) PROVE Tasks'
  BY <1>2, TaskTaken
<1>n. ASSUME NEW w \in pool, CountLoad(w) \/ CountStore(w) \/ Open(w) \/ Close(w)
      PROVE  NextFile' = NextFile
  BY <1>n DEF CountLoad, CountStore, Open, Close, NextFile
<1>3. ASSUME NEW w \in pool, CountLoad(w) \/ CountStore(w) PROVE Tasks'
  <2>1. /\ Busy(w) /\ (\A v \in pool : Busy(v)' <=> Busy(v))
        /\ UNCHANGED <<wfile, visits, pool, fds>>
        /\ \A v \in pool : wpc'[v] = "close" <=> wpc[v] = "close"
    BY <1>3, <1>t DEF CountLoad, CountStore, Busy
  <2>2. fds' = {v \in pool : wpc'[v] = "close"}
    BY <2>1 DEF Tasks
  <2>3. wpc' \in [Workers -> {"idle", "load", "store", "open", "close"}]
    BY <1>t DEF SearchTypeOK
  <2>4. QED
    BY <1>3, <1>n, <2>1, <2>2, <2>3, TasksKept
<1>4. ASSUME NEW w \in pool, Open(w) PROVE Tasks'
  <2>1. CASE fds' = fds \cup {w} /\ wpc' = [wpc EXCEPT ![w] = "close"] /\ UNCHANGED visits
    <3>1. /\ Busy(w) /\ (\A v \in pool : Busy(v)' <=> Busy(v)) /\ UNCHANGED <<wfile, visits, pool>>
      BY <1>4, <1>t, <2>1 DEF Open, Busy
    <3>2. fds' = {v \in pool : wpc'[v] = "close"}
      BY <1>t, <2>1 DEF Tasks
    <3>3. wpc' \in [Workers -> {"idle", "load", "store", "open", "close"}]
      BY <1>t DEF SearchTypeOK
    <3>4. QED
      BY <1>4, <1>n, <3>1, <3>2, <3>3, TasksKept
  <2>2. CASE /\ visits' = [visits EXCEPT ![wfile[w]] = @ + 1]
             /\ wpc' = [wpc EXCEPT ![w] = "idle"] /\ UNCHANGED fds
    <3>1. Busy(w) /\ UNCHANGED <<wfile, pool>> /\ fds' = fds \ {w}
      BY <1>4, <2>2 DEF Open, Busy, Tasks
    <3>2. QED
      BY <1>4, <1>n, <1>t, <2>2, <3>1, TaskEnds
  <2>3. QED
    BY <1>4, <2>1, <2>2 DEF Open
<1>5. ASSUME NEW w \in pool, Close(w) PROVE Tasks'
  <2>1. /\ Busy(w) /\ UNCHANGED <<wfile, pool>> /\ fds' = fds \ {w}
        /\ visits' = [visits EXCEPT ![wfile[w]] = @ + 1] /\ wpc' = [wpc EXCEPT ![w] = "idle"]
    BY <1>5 DEF Close, Busy
  <2>2. QED
    BY <1>5, <1>n, <1>t, <2>1, TaskEnds
<1>6. QED
  BY <1>1, <1>2, <1>3, <1>4, <1>5 DEF Next, Worker
-----------------------------------------------------------------------------
(* The count *)

\* Nothing is counted before the first task.
LEMMA CountsInit == Init => Counts
<1> SUFFICES ASSUME Init PROVE Counts
  OBVIOUS
<1>1. NextFile = 1
  BY DEF Init, NextFile
<1>2. Counted = {}
  BY <1>1 DEF Counted
<1>3. pool \subseteq Workers /\ \A w \in pool : wpc[w] # "store"
  BY DEF Init
<1>4. Cardinality(Counted) = 0 /\ num_files = 0
  BY <1>2, FS_EmptySet DEF Init
<1>5. QED
  BY <1>2, <1>3, <1>4 DEF Counts

\* There are finitely many matches.
LEMMA CountedFinite ==
    ASSUME NextFile \in Nat
    PROVE  IsFiniteSet(Counted) /\ Cardinality(Counted) \in Nat
<1>1. IsFiniteSet(1 .. NextFile - 1)
  BY FS_Interval
<1>2. Counted \subseteq 1 .. NextFile - 1
  BY DEF Counted
<1>3. QED
  BY <1>1, <1>2, FS_Subset, FS_CardinalityType

\* The same matches counted, by a step that does not touch the count.
LEMMA CountsUnchanged ==
    ASSUME Counts, Counted' = Counted, UNCHANGED <<num_files, wcount, pool>>,
           \A w \in pool : wpc'[w] = "store" => wpc[w] = "store"
    PROVE  Counts'
BY DEF Counts

\* A load sees a count that is not ahead, a store makes it one more than a count
\* that was not ahead, and its own match is counted with it.
LEMMA CountsStep ==
    SearchTypeOK /\ Pages /\ Tasks /\ Counts /\ [Next]_vars => Counts'
<1> SUFFICES ASSUME SearchTypeOK, Pages, Tasks, Counts, [Next]_vars PROVE Counts'
  OBVIOUS
<1> USE DEF main, workers
<1>t. /\ wpc \in [Workers -> {"idle", "load", "store", "open", "close"}] /\ pool \subseteq Workers
      /\ wfile \in [Workers -> Nat] /\ wcount \in [Workers -> Nat]
      /\ num_files \in Nat
  BY DEF SearchTypeOK
<1>f. NextFile \in Nat /\ IsFiniteSet(Counted) /\ Cardinality(Counted) \in Nat
  <2>1. NextFile \in Nat
    BY SearchAssumption DEF SearchTypeOK, Pages, NextFile
  <2>2. QED
    BY <2>1, CountedFinite
<1>1. CASE Main \/ UNCHANGED vars
  <2>1. UNCHANGED <<wpc, wfile, wcount, num_files, pool>> /\ \A w \in pool : ~TakeTask(w)
    BY <1>1, <1>t DEF Main, Search, Check, Submit, WaitForTasks, vars, TakeTask
  <2>2. NextFile' = NextFile
    BY <2>1, PagesStep
  <2>3. Counted' = Counted
    BY <2>1, <2>2 DEF Counted, Counting
  <2>4. QED
    BY <2>1, <2>3, CountsUnchanged
<1>2. ASSUME NEW w \in pool, TakeTask(w) PROVE Counts'
  <2>1. NextFile' = NextFile + 1 /\ wfile' = [wfile EXCEPT ![w] = NextFile]
    BY <1>2, TaskTaken
  <2>2. /\ wpc[w] = "idle" /\ wpc' = [wpc EXCEPT ![w] = "load"]
        /\ UNCHANGED <<wcount, num_files, pool>>
    BY <1>2 DEF TakeTask
  <2>3. /\ Counting(w)' /\ ~Counting(w) /\ wfile'[w] = NextFile
        /\ \A v \in pool \ {w} : (Counting(v)' <=> Counting(v)) /\ wfile'[v] = wfile[v]
    BY <1>t, <2>1, <2>2 DEF Counting
  <2>4. Counted' = Counted
    <3>1. 1 .. NextFile' - 1 = (1 .. NextFile - 1) \cup {NextFile}
      BY <1>f, <2>1, SearchAssumption DEF Pages
    <3>2. ASSUME NEW g
          PROVE  (\A v \in pool : Counting(v)' => wfile'[v] # g)
                   <=> g # NextFile /\ \A v \in pool : Counting(v) => wfile[v] # g
      BY <2>3
    <3>3. NextFile \notin 1 .. NextFile - 1
      BY <1>f
    <3>4. QED
      BY <2>2, <3>1, <3>2, <3>3 DEF Counted
  <2>5. QED
    BY <1>t, <2>2, <2>4, CountsUnchanged
<1>n. ASSUME NEW w \in pool, CountLoad(w) \/ CountStore(w) \/ Open(w) \/ Close(w)
      PROVE  NextFile' = NextFile
  BY <1>n DEF CountLoad, CountStore, Open, Close, NextFile
<1>3. ASSUME NEW w \in pool, CountLoad(w) PROVE Counts'
  <2>1. /\ wcount' = [wcount EXCEPT ![w] = num_files] /\ wpc[w] = "load"
        /\ wpc' = [wpc EXCEPT ![w] = "store"] /\ UNCHANGED <<wfile, num_files, pool>>
    BY <1>3 DEF CountLoad
  <2>2. \A v \in pool : Counting(v)' <=> Counting(v)
    BY <1>t, <2>1 DEF Counting
  <2>3. Counted' = Counted
    BY <1>3, <1>n, <2>1, <2>2 DEF Counted
  <2>4. \A v \in pool : wpc'[v] = "store" =>
            \/ wcount'[v] = num_files
            \/ wpc[v] = "store" /\ wcount'[v] = wcount[v]
    BY <1>t, <2>1
  <2>5. QED
    BY <2>1, <2>3, <2>4 DEF Counts
<1>4. ASSUME NEW w \in pool, CountStore(w) PROVE Counts'
  <2>1. /\ num_files' = wcount[w] + 1 /\ wpc[w] = "store"
        /\ wpc' = [wpc EXCEPT ![w] = "open"] /\ UNCHANGED <<wfile, wcount, pool>>
    BY <1>4 DEF CountStore
  <2>2. /\ ~Counting(w)' /\ Counting(w)
        /\ \A v \in pool \ {w} : Counting(v)' <=> Counting(v)
    BY <1>t, <2>1 DEF Counting
  <2>3. /\ wfile[w] \in 1 .. NextFile - 1
        /\ \A v \in pool \ {w} : Counting(v) => wfile[v] # wfile[w]
    BY <1>t, <2>1 DEF Tasks, Busy, Counting
  <2>4. Counted' = Counted \cup {wfile[w]} /\ wfile[w] \notin Counted
    <3>1. ASSUME NEW g
          PROVE  (\A v \in pool : Counting(v)' => wfile'[v] # g)
                   <=> g = wfile[w] \/ \A v \in pool : Counting(v) => wfile[v] # g
      BY <2>1, <2>2, <2>3
    <3>2. QED
      BY <1>4, <1>n, <2>1, <2>2, <2>3, <3>1 DEF Counted
  <2>5. Cardinality(Counted') = Cardinality(Counted) + 1
    BY <1>f, <2>4, FS_AddElement
  <2>6. wcount[w] <= Cardinality(Counted) /\ wcount[w] \in Nat
    BY <1>t, <2>1 DEF Counts
  <2>7. num_files' <= Cardinality(Counted') /\ num_files' >= 1
    BY <1>f, <2>1, <2>5, <2>6
  <2>8. \A v \in pool : wpc'[v] = "store" => wpc[v] = "store" /\ v # w
    BY <1>t, <2>1
  <2>9. \A v \in pool : wpc'[v] = "store" => wcount[v] <= Cardinality(Counted')
    BY <1>f, <1>t, <2>5, <2>8 DEF Counts
  <2>10. ASSUME Cardinality(pool) = 1
         PROVE  num_files' = Cardinality(Counted') /\ \A v \in pool : v = w
    <3>1. IsFiniteSet(pool)
      BY <1>t, SearchAssumption, FS_Subset
    <3>2. \A v \in pool : v = w
      BY <2>10, <3>1, FS_Singleton
    <3>3. wcount[w] = Cardinality(Counted)
      BY <2>1, <2>10 DEF Counts
    <3>4. QED
      BY <2>1, <2>5, <3>2, <3>3
  <2>11. QED
    BY <2>1, <2>7, <2>8, <2>9, <2>10 DEF Counts
<1>5. ASSUME NEW w \in pool, Open(w) \/ Close(w) PROVE Counts'
  <2>1. /\ UNCHANGED <<wfile, wcount, num_files, pool>>
        /\ \A v \in pool : (Counting(v)' <=> Counting(v)) /\ (wpc'[v] = "store" => wpc[v] = "store")
    BY <1>5, <1>t DEF Open, Close, Counting
  <2>2. Counted' = Counted
    BY <1>5, <1>n, <2>1 DEF Counted
  <2>3. QED
    BY <2>1, <2>2, CountsUnchanged
<1>6. QED
  BY <1>1, <1>2, <1>3, <1>4, <1>5 DEF Next, Worker
-----------------------------------------------------------------------------
(* What the caller gets *)

\* The matches in order, each in one place, and the count not ahead of them.
THEOREM SearchInvariant == Spec => []SearchInv
<1>1. Init => SearchInv
  BY SearchInit, CountsInit DEF SearchInv
<1>2. SearchInv /\ [Next]_vars => SearchInv'
  BY PagesStep, TasksStep, CountsStep DEF SearchInv
<1>3. QED
  BY <1>1, <1>2, PTL DEF Spec

\* When the search returns, every match has been processed once and its file is
\* closed, for every number of threads, matches and matches per page.
THEOREM AlwaysEveryMatchProcessed == Spec => []EveryMatchProcessed
<1>1. SearchInv => EveryMatchProcessed
  <2> SUFFICES ASSUME SearchInv, mpc = "returned"
               PROVE  (\A f \in 1 .. NumFiles : visits[f] = 1) /\ fds = {}
    BY DEF EveryMatchProcessed
  <2> USE DEF SearchInv
  <2>1. \A w \in pool : wpc[w] = "idle"
    BY DEF Pages, NoTasks
  <2>2. NextFile = NumFiles + 1
    BY SearchAssumption DEF Pages, NoTasks, NextFile
  <2>3. \A f : ~InHand(f)
    BY <2>1 DEF InHand, Busy
  <2>4. \A f \in 1 .. NumFiles : visits[f] = 1
    BY <2>2, <2>3, SearchAssumption DEF Tasks
  <2>5. fds = {}
    BY <2>1 DEF Tasks
  <2>6. QED
    BY <2>4, <2>5
<1>2. QED
  BY <1>1, SearchInvariant, PTL

\* The number printed is never too high and never 0 for matches that exist; a
\* pool of one thread counts exactly.
THEOREM AlwaysCountIsBounded == Spec => []CountIsBounded
<1>1. SearchInv => CountIsBounded
  <2> SUFFICES ASSUME SearchInv, mpc = "returned" PROVE CountIsBounded
    BY DEF CountIsBounded
  <2> USE DEF SearchInv
  <2>1. \A w \in pool : wpc[w] = "idle"
    BY DEF Pages, NoTasks
  <2>2. NextFile = NumFiles + 1
    BY SearchAssumption DEF Pages, NoTasks, NextFile
  <2>3. Counted = 1 .. NumFiles
    BY <2>1, <2>2, SearchAssumption DEF Counted, Counting
  <2>4. Cardinality(Counted) = NumFiles
    BY <2>3, SearchAssumption, FS_Interval
  <2>5. NumFiles > 0 => Counted # {}
    BY <2>3, SearchAssumption
  <2>6. QED
    BY <2>4, <2>5 DEF Counts, CountIsBounded
<1>2. QED
  BY <1>1, SearchInvariant, PTL
=============================================================================
