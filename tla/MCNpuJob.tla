------------------------------ MODULE MCNpuJob ------------------------------
(* A small instance of NpuJob: two cores, jobs that use one of them, both or *)
(* either, and two domains.                                                  *)
EXTENDS NpuJob

CONSTANTS j1, j2, j3, d0, d1

MCCores == 0 .. 1
MCJobs == {j1, j2, j3}
MCDomains == {d0, d1}

Request(cores, domain, nonblock, batches) ==
  [cores |-> cores, domain |-> domain, nonblock |-> nonblock, batches |-> batches]

MCRequests == {Request({0, 1}, d0, FALSE, 1), Request({1}, d1, FALSE, 2),
               Request({}, d0, TRUE, 1), Request({1}, d0, TRUE, 1)}
MCSymmetry == Permutations(MCJobs)
MCMishaps == {"timeout", "overdue", "switch", "status", "reset"}
=============================================================================
