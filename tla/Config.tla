------------------------------- MODULE Config -------------------------------
(***************************************************************************)
(* internal/config/config.go: how a list is read from the environment.     *)
(* A string is a sequence of characters; the empty one is an unset         *)
(* variable too (os.Getenv does not tell them apart).                      *)
(***************************************************************************)
EXTENDS Integers, Sequences

Comma == ","

\* one character of the loop in envSlice
Scan(acc, c) ==
  IF c # Comma THEN [acc EXCEPT !.current = Append(@, c)]
  ELSE [result |-> IF acc.current = <<>> THEN acc.result
                   ELSE Append(acc.result, acc.current),
        current |-> <<>>]

\* where the loop is after each of its characters
Scanned(v) ==
  LET scan[i \in 0 .. Len(v)] == IF i = 0 THEN [result |-> <<>>, current |-> <<>>]
                                 ELSE Scan(scan[i - 1], v[i])
  IN  scan

\* the list, with the item that the end of the string ends
ListOf(end) == IF end.current = <<>> THEN end.result ELSE Append(end.result, end.current)

\* A mutant: a variable that holds nothing but commas gives an empty list.
envSliceNoFallback(v, fallback) ==
  IF v = <<>> THEN fallback ELSE ListOf(Scanned(v)[Len(v)])

envSlice(v, fallback) ==
  LET result == ListOf(Scanned(v)[Len(v)])
  IN  IF result = <<>> THEN fallback ELSE result

-----------------------------------------------------------------------------
(* What a list in the environment means, without a loop *)

\* the positions where an item of v starts, and the item that starts at i
Starts(v) == {i \in DOMAIN v : v[i] # Comma /\ (i = 1 \/ v[i - 1] = Comma)}

ItemAt(v, i) ==
  LET ends == {j \in i .. Len(v) : j = Len(v) \/ v[j + 1] = Comma}
  IN  SubSeq(v, i, CHOOSE j \in ends : \A e \in ends : j <= e)

\* list holds the items of v in their order
IsItems(list, v) ==
  \E at \in [1 .. Len(list) -> DOMAIN v] :
    /\ \A m \in DOMAIN list : list[m] = ItemAt(v, at[m])
    /\ \A m, o \in DOMAIN list : m < o => at[m] < at[o]
    /\ {at[m] : m \in DOMAIN list} = Starts(v)
=============================================================================
