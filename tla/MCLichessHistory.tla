-------------------------- MODULE MCLichessHistory --------------------------
(* LichessHistory with a request whose upper bound lies ahead of the clock.  *)
EXTENDS LichessHistory

Ask(until) == [mode |-> "incremental", since |-> Open, until |-> until]
FutureRequests == {Ask(Last), Ask(NoDate)}
=============================================================================
