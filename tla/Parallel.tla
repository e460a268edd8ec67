------------------------------ MODULE Parallel ------------------------------
(***************************************************************************)
(* src/src/repo/algo.rs: how a list of weighted items is cut into frames,  *)
(* and how a list of tasks is dealt out to threads and its results are     *)
(* joined.  Pure operators: PackStream runs the threads.                   *)
(***************************************************************************)
EXTENDS Integers, Sequences, SequencesExt

Total(weights) == FoldFunction(+, 0, weights)

\* partition_by_u64: up to n slices; every slice but the last is as long as the
\* weight of an even share allows, the last takes the rest.  A pass of the loop
\* begins where the one before ended, and leaves out an empty slice.
partition_by_u64(xs, n, weight) ==
    LET parts == Max({Min({n, Len(xs)}), 1})
        bound == Total([i \in DOMAIN xs |-> weight[xs[i]]]) \div parts
        room(i) == {j \in i..Len(xs) :
                       Total([k \in i + 1..j |-> weight[xs[k]]]) <= bound}
        pass[k \in 0..parts] ==
            IF k = 0 THEN [end |-> 0, slices |-> <<>>]
            ELSE LET begin == pass[k - 1].end
                     end == IF k = parts THEN Len(xs) ELSE Max(room(begin))
                 IN  [end |-> end,
                      slices |-> IF begin = end THEN pass[k - 1].slices
                                 ELSE Append(pass[k - 1].slices, SubSeq(xs, begin + 1, end))]
    IN  IF xs = <<>> THEN <<>> ELSE pass[parts].slices

\* run_in_parallel: one thread for every group of consecutive tasks; each runs
\* its tasks in order and keeps their results.  With a division that leaves a
\* remainder there are more threads than asked for.
Spawn(nthread, tasks) ==
    LET per == IF nthread > Len(tasks) THEN 1 ELSE Len(tasks) \div nthread
    IN  [g \in 1..(Len(tasks) + per - 1) \div per |->
            [todo |-> SubSeq(tasks, (g - 1) * per + 1, Min({g * per, Len(tasks)})),
             done |-> <<>>]]

\* A thread has run its next task.
Ran(threads, g, result) ==
    [threads EXCEPT ![g] = [todo |-> Tail(@.todo), done |-> Append(@.done, result)]]

AllRan(threads) == \A g \in DOMAIN threads : threads[g].todo = <<>>

\* The threads are joined in the order they were spawned.
Joined(threads) == FlattenSeq([g \in DOMAIN threads |-> threads[g].done])
=============================================================================
