------------------------------- MODULE SearchFS ------------------------------
(***************************************************************************)
(* SearchFS::files_larger_than: the main thread asks the volume, page by   *)
(* page, for files of at least a size and hands every match to a thread    *)
(* pool; process_file counts the file in a plain global, opens it and      *)
(* closes it.  The searchfs system call and the thread pool are not in the *)
(* repository and are modelled by how they are used.                       *)
(***************************************************************************)
EXTENDS Integers, Sequences, FiniteSets

CONSTANTS
    Workers,            \* the threads the pool may have
    NumFiles,           \* the volume's matching files are 1 .. NumFiles
    ITEMS_PER_SEARCH,   \* matches per call
    MaxAgain            \* calls that end early and report no match (a bound)

ASSUME SearchAssumption ==
    /\ Workers # {} /\ IsFiniteSet(Workers)
    /\ NumFiles \in Nat /\ MaxAgain \in Nat
    /\ ITEMS_PER_SEARCH \in Nat \ {0}

VARIABLES
    mpc,        \* main: "search", "check", "submit", "wait", "returned", "aborted"
    res,        \* result of searchfs: "ok", or errno
    START,      \* SRCHFS_START is set in options
    found,      \* the matches in res_buf that are not submitted yet
    cursor,     \* searchstate: the next file the volume will report
    again,      \* calls that reported nothing
    volume,     \* "sound", "busy" (EBUSY is possible) or "failing" (EIO for ever)
    queue,      \* tasks the pool has not started
    pool,       \* the threads it has, of Workers
    wpc,        \* worker: "idle", "load", "store", "open", "close"
    wfile,      \* worker: ino
    wcount,     \* worker: num_files as it loaded it
    num_files,
    fds,        \* workers that hold an open file
    visits      \* file -> how often process_file has finished with it

main == <<mpc, res, START, found, cursor, again>>
workers == <<wpc, wfile, wcount, num_files, fds, visits>>
vars == <<main, queue, workers, volume, pool>>

Init ==
    /\ mpc = "search" /\ res = "ok" /\ START = TRUE
    /\ found = <<>> /\ cursor = 1 /\ again = 0
    /\ volume \in {"sound", "busy", "failing"}
    /\ queue = <<>>
    /\ pool \in SUBSET Workers \ {{}}
    /\ wpc = [w \in Workers |-> "idle"]
    /\ wfile = [w \in Workers |-> 0]
    /\ wcount = [w \in Workers |-> 0]
    /\ num_files = 0
    /\ fds = {}
    /\ visits = [f \in 1 .. NumFiles |-> 0]

-----------------------------------------------------------------------------
\* What a call reports: a page of the matches from where the last one ended, or
\* from the first with SRCHFS_START.  The search is over when all of them are
\* reported; EAGAIN asks for another call.
From == IF START THEN 1 ELSE cursor
Page(k) == [i \in 1 .. k |-> From + i - 1]
PageSizes == {k \in 0 .. ITEMS_PER_SEARCH : From + k <= NumFiles + 1}

Searchfs(result, k) ==
    CASE result = "ok"     -> volume # "failing" /\ From + k = NumFiles + 1
      [] result = "EAGAIN" -> volume # "failing" /\ (k = 0 => again < MaxAgain)
      [] result = "EBUSY"  -> volume = "busy" /\ k = 0
      [] result = "EIO"    -> volume = "failing" /\ k = 0

Search ==
    /\ mpc = "search"
    /\ \E result \in {"ok", "EAGAIN", "EBUSY", "EIO"}, k \in PageSizes :
          /\ Searchfs(result, k)
          /\ res' = result
          /\ found' = Page(k)
          /\ cursor' = From + k
          /\ again' = IF k = 0 /\ result = "EAGAIN" THEN again + 1 ELSE again
    /\ mpc' = "check"
    /\ UNCHANGED <<START, queue, workers, volume, pool>>

\* The tests of the result.  `errno != EAGAIN || errno != EBUSY' is always
\* true, so the first test never holds and only EBUSY stops the program.
Check ==
    /\ mpc = "check"
    /\ \/ /\ res = "EBUSY"
          /\ mpc' = "aborted"
          /\ UNCHANGED START
       \/ /\ res # "EBUSY"
          /\ mpc' = "submit"
          /\ START' = FALSE
    /\ UNCHANGED <<res, found, cursor, again, queue, workers, volume, pool>>

\* Mutations of Submit: the last match of a page is left out, and nothing ends
\* the loop.
SubmitAllButLast ==
    /\ mpc = "submit"
    /\ \/ /\ Len(found) > 1
          /\ queue' = Append(queue, Head(found))
          /\ found' = Tail(found)
          /\ UNCHANGED mpc
       \/ /\ Len(found) <= 1
          /\ found' = <<>>
          /\ mpc' = IF res = "ok" THEN "wait" ELSE "search"
          /\ UNCHANGED queue
    /\ UNCHANGED <<res, START, cursor, again, workers, volume, pool>>

SubmitNoBreak ==
    /\ mpc = "submit"
    /\ \/ /\ found # <<>>
          /\ queue' = Append(queue, Head(found))
          /\ found' = Tail(found)
          /\ UNCHANGED mpc
       \/ /\ found = <<>>
          /\ mpc' = "search"
          /\ UNCHANGED <<queue, found>>
    /\ UNCHANGED <<res, START, cursor, again, workers, volume, pool>>

\* Every match of the page becomes a task; then the loop ends or goes on.
Submit ==
    /\ mpc = "submit"
    /\ \/ /\ found # <<>>
          /\ queue' = Append(queue, Head(found))
          /\ found' = Tail(found)
          /\ UNCHANGED mpc
       \/ /\ found = <<>>
          /\ mpc' = IF res = "ok" THEN "wait" ELSE "search"
          /\ UNCHANGED <<queue, found>>
    /\ UNCHANGED <<res, START, cursor, again, workers, volume, pool>>

\* Mutation of NoTasks: only the queue is looked at.
NoTasksQueued == queue = <<>>

\* No task is queued or running.
NoTasks == queue = <<>> /\ \A w \in pool : wpc[w] = "idle"

\* wait_for_tasks returns, and the number of files is printed.
WaitForTasks ==
    /\ mpc = "wait"
    /\ NoTasks
    /\ mpc' = "returned"
    /\ UNCHANGED <<res, START, found, cursor, again, queue, workers, volume, pool>>

Main == Search \/ Check \/ Submit \/ WaitForTasks

-----------------------------------------------------------------------------
\* A thread of the pool takes the oldest task.
TakeTask(w) ==
    /\ wpc[w] = "idle"
    /\ queue # <<>>
    /\ wfile' = [wfile EXCEPT ![w] = Head(queue)]
    /\ queue' = Tail(queue)
    /\ wpc' = [wpc EXCEPT ![w] = "load"]
    /\ UNCHANGED <<main, wcount, num_files, fds, visits, volume, pool>>

\* ++num_files of a plain global: a load ...
CountLoad(w) ==
    /\ wpc[w] = "load"
    /\ wcount' = [wcount EXCEPT ![w] = num_files]
    /\ wpc' = [wpc EXCEPT ![w] = "store"]
    /\ UNCHANGED <<main, queue, wfile, num_files, fds, visits, volume, pool>>

\* ... and a store.
CountStore(w) ==
    /\ wpc[w] = "store"
    /\ num_files' = wcount[w] + 1
    /\ wpc' = [wpc EXCEPT ![w] = "open"]
    /\ UNCHANGED <<main, queue, wfile, wcount, fds, visits, volume, pool>>

\* fsgetpath and open; either may fail, and then nothing is open.
Open(w) ==
    /\ wpc[w] = "open"
    /\ \/ /\ fds' = fds \cup {w}
          /\ wpc' = [wpc EXCEPT ![w] = "close"]
          /\ UNCHANGED visits
       \/ /\ visits' = [visits EXCEPT ![wfile[w]] = @ + 1]
          /\ wpc' = [wpc EXCEPT ![w] = "idle"]
          /\ UNCHANGED fds
    /\ UNCHANGED <<main, queue, wfile, wcount, num_files, volume, pool>>

\* close, and the task is done.
Close(w) ==
    /\ wpc[w] = "close"
    /\ fds' = fds \ {w}
    /\ visits' = [visits EXCEPT ![wfile[w]] = @ + 1]
    /\ wpc' = [wpc EXCEPT ![w] = "idle"]
    /\ UNCHANGED <<main, queue, wfile, wcount, num_files, volume, pool>>

Worker(w) == TakeTask(w) \/ CountLoad(w) \/ CountStore(w) \/ Open(w) \/ Close(w)

Next == Main \/ \E w \in pool : Worker(w)

\* Every thread that can run runs.
Spec ==
    /\ Init /\ [][Next]_vars
    /\ WF_vars(Main)
    /\ \A w \in Workers : WF_vars(w \in pool /\ Worker(w))

-----------------------------------------------------------------------------
\* When files_larger_than returns, every match of every page has been processed
\* exactly once and its file is closed again, however the pages were cut, the
\* calls interrupted and the tasks interleaved.
EveryMatchProcessed ==
    mpc = "returned" =>
        /\ \A f \in 1 .. NumFiles : visits[f] = 1
        /\ fds = {}

\* The number that is printed never exceeds the number of matches, and it is
\* exact when the pool has one thread: with more, two threads that increment
\* at once lose one of the counts, but never all.
CountIsBounded ==
    mpc = "returned" =>
        /\ NumFiles > 0 => num_files >= 1
        /\ Cardinality(pool) = 1 => num_files = NumFiles
        /\ num_files <= NumFiles

\* The search ends and all tasks with it, on a volume whose errors are not
\* permanent: every other error makes the loop call again for ever.
Returns == volume # "failing" => <>(mpc \in {"returned", "aborted"})

\* What the loop goes on with is "EAGAIN or res == 0 and last iteration", as
\* the comment before the page is submitted says (SearchFS.cpp:124).
OnlyAgainGoesOn == mpc = "submit" => res \in {"ok", "EAGAIN"}
=============================================================================
