------------------------------ MODULE Repetition ----------------------------
(***************************************************************************)
(* The search for a repetition loop at the end of an output                *)
(* (platform/repetition.rs).  A text is a sequence of characters; only its *)
(* last ScanWindow characters choose the unit that repeats.                *)
(***************************************************************************)
EXTENDS Integers, Sequences

CONSTANTS None,        \* an absent Option
          MaxPeriod,   \* MAX_PERIOD
          ScanWindow,  \* SCAN_WINDOW
          MinSpan,     \* the 48 characters a loop spans
          MinCut       \* the 128 characters of a unit that was cut

Most(numbers) == CHOOSE n \in numbers : \A o \in numbers : n >= o
Window(text) == IF Len(text) > ScanWindow THEN SubSeq(text, Len(text) - ScanWindow + 1, Len(text)) ELSE text

\* How many characters at the end equal the one a period before them.
Repeated(text, period) ==
  Most({k \in 0..(Len(text) - period) : \A i \in (Len(text) - k + 1)..Len(text) : text[i] = text[i - period]})

qualifies(text, period) ==
  LET r == Repeated(text, period)
  IN (r >= period /\ r + period >= MinSpan) \/ r >= MinCut

Run(text, period) ==
  LET r == Repeated(text, period) IN [unique_prefix |-> Len(text) - r, period |-> period, repeated |-> r]

Periods(text) == 1..(IF Len(text) - 1 < MaxPeriod THEN Len(text) - 1 ELSE MaxPeriod)

\* Mutant: the search ends with the first unit that qualifies.
detect_in_window_First(text) ==
  LET able == {p \in Periods(text) : qualifies(text, p)}
  IN IF able = {} THEN None ELSE Run(text, CHOOSE p \in able : \A o \in able : p <= o)

\* One more period: the earliest first copy wins; no longer unit can start
\* earlier once the period reaches the best prefix.
Earlier(text, p, current) ==
  IF /\ p \in Periods(text) /\ qualifies(text, p)
     /\ current = None \/ (p < current.unique_prefix /\ Run(text, p).unique_prefix < current.unique_prefix)
    THEN Run(text, p) ELSE current

\* The periods in order.
detect_in_window(text) ==
  LET best[p \in 0..MaxPeriod] == IF p = 0 THEN None ELSE Earlier(text, p, best[p - 1])
  IN best[MaxPeriod]

\* A run that fills the window is followed back through the earlier text.
detect_tail_loop(text) ==
  LET offset == Len(text) - Len(Window(text))
      found  == detect_in_window(Window(text))
  IN IF found = None THEN None
     ELSE IF offset > 0 /\ found.unique_prefix = found.period THEN Run(text, found.period)
     ELSE [found EXCEPT !.unique_prefix = @ + offset]

\* While a text still grows it is stopped later than it would be reported.
should_stop_streaming(text, span) ==
  LET found == detect_tail_loop(text)
  IN found # None /\ found.repeated >= 2 * found.period /\ found.repeated >= span

\* The receipt: only for an output that hit its cap or was stopped, and for one
\* that was stopped even when no loop is found in it.
output_check(reason, text) ==
  CASE reason \notin {"length", "repetition", "repeat_limit"} -> None
    [] reason \in {"repetition", "repeat_limit"} /\ detect_tail_loop(text) = None -> [loop |-> None]
    [] reason = "length" /\ detect_tail_loop(text) = None -> None
    [] OTHER -> [loop |-> detect_tail_loop(text)]

-----------------------------------------------------------------------------
(* Properties *)

\* Looking at the end of the text alone loses nothing: the loop that is found
\* is the one of the whole text whose first copy ends earliest, over every
\* period, whatever the search skips and wherever the window begins.
EarliestLoopIsFound(text) ==
  LET found == detect_tail_loop(text)
      able  == {p \in Periods(text) : qualifies(text, p)}
  IN IF able = {} THEN found = None
     ELSE /\ found = Run(text, found.period) /\ found.period \in able
          /\ \A p \in able : found.unique_prefix <= Run(text, p).unique_prefix
=============================================================================
