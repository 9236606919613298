----------------------------- MODULE FilingLog -----------------------------
(***************************************************************************)
(* What a watchlist promises.  A watched company has a mark, the newest    *)
(* filing taken note of (0 before the first look).  The mark only moves    *)
(* forward, and each move announces every filing it passes, oldest first,  *)
(* as far back as the feed reaches; the first look announces nothing.      *)
(***************************************************************************)
EXTENDS Integers

CONSTANTS
  Companies,
  Window  \* how many of a company's filings the feed shows

VARIABLES
  mark,   \* for each company, the newest filing taken note of
  told    \* for each company, the filings announced, each at its position in
          \* the trail that all companies share

vars == <<mark, told>>

\* The filings that a move from k to n passes and the feed still shows.
Passed(k, n) == {f \in k + 1..n : n - f < Window}

\* Each of the filings is told once, the older before the newer, after all
\* that was told before.
Tells(before, after, filings) ==
  LET new == DOMAIN after \ DOMAIN before IN
  /\ \A i \in DOMAIN before : i \in DOMAIN after /\ after[i] = before[i]
  /\ \A i \in DOMAIN before, j \in new : i < j
  /\ {after[i] : i \in new} = filings
  /\ \A i, j \in new : i < j => after[i] < after[j]

Init ==
  /\ mark = [c \in Companies |-> 0]
  /\ told = [c \in Companies |-> <<>>]

Quiet(c) == told'[c] = told[c]

FirstLook(c) ==
  /\ mark[c] = 0
  /\ \A i \in DOMAIN told[c] : told[c][i] <= mark'[c]
  /\ Quiet(c)

Announce(c) ==
  /\ 0 < mark[c] /\ mark[c] < mark'[c]
  /\ Tells(told[c], told'[c], Passed(mark[c], mark'[c]))

Forget(c) == mark'[c] = 0 /\ Quiet(c)

Same(c) == mark'[c] = mark[c] /\ Quiet(c)

Next == \A c \in Companies : FirstLook(c) \/ Announce(c) \/ Forget(c) \/ Same(c)

Spec == Init /\ [][Next]_vars
=============================================================================
