\* One asker polls while the pool's thread finishes the job.
SPECIFICATION RegistrySpec
CONSTANTS
  Job = {j1, j2}
  Asker = {a1}
  Workers = 1
\* The daemon may be gone.
CHECK_DEADLOCK FALSE
INVARIANT DoneIsToldWithOutput
