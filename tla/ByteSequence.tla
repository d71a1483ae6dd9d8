----------------------------- MODULE ByteSequence -----------------------------
(* What class DataBuffer promises: a sequence of bytes and its length.  call   *)
(* is the last call and says what becomes of them.  A call that the code does  *)
(* not carry through sets torn, and nothing is promised from there on.         *)
EXTENDS Integers, Sequences

VARIABLES bytes, size, call, torn
vars == <<bytes, size, call, torn>>

Take(s, n) == SubSeq(s, 1, IF n < Len(s) THEN n ELSE Len(s))
Drop(s, n) == SubSeq(s, n + 1, Len(s))

\* s in place of the n bytes from index on, counted from 0; at the end when
\* index is past it.
Splice(index, n, s) == Take(bytes, index) \o s \o Drop(bytes, index + n)

Within(index) == index < Len(bytes)

Outcome(c) ==
    CASE c.op \in {"Insert", "InsertFill", "Append", "Prepend"} -> Splice(c.at, 0, c.data)
      [] c.op = "Fill" /\ Within(c.at) ->
             Splice(c.at, Len(c.data), Take(c.data, Len(bytes) - c.at))
      [] c.op = "Replace" /\ (Within(c.at) \/ Len(c.data) # 1 \/ c.size # 1) ->
             Splice(c.at, c.size, c.data)
      [] c.op = "Remove" -> Splice(c.at, c.size, <<>>)
      [] c.op = "Resize" -> Take(bytes, c.size) \o [i \in 1..c.size - Len(bytes) |-> 0]
      [] c.op = "Clear"  -> <<>>
      [] OTHER -> bytes      \* Compress; a change of a byte past the end

Init == bytes = <<>> /\ size = 0 /\ torn = FALSE /\ call = [op |-> "Clear"]

Kept == /\ bytes' = Outcome(call')
        /\ size' = Len(bytes')
        /\ torn' = FALSE

Tears == torn' = TRUE

Next == torn = FALSE /\ (Kept \/ Tears)
Spec == Init /\ [][Next]_vars
===============================================================================
