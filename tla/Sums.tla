-------------------------------- MODULE Sums --------------------------------
(***************************************************************************)
(* The sum of a family f[1], ..., f[n] of integers.  The bot adds such     *)
(* families everywhere it values an account: the reservations of the       *)
(* running grids (sum(self._reserved.values())), the open positions        *)
(* (for p in self.positions.values(): eq += ...).                          *)
(***************************************************************************)
EXTENDS Naturals

\* Running totals of f; Running(f)[n] is f[1] + ... + f[n].
Running(f) == LET total[n \in Nat] == IF n = 0 THEN 0 ELSE total[n - 1] + f[n]
              IN  total

SumTo(f, n) == Running(f)[n]
=============================================================================
