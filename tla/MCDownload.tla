----------------------------- MODULE MCDownload -----------------------------
(***************************************************************************)
(* Names of assets for TLC: a12.txt and a-1.txt, a digit as its value.     *)
(***************************************************************************)
EXTENDS Download

Letter == 10
Minus == 11

Extension == <<Letter, Letter, Letter, Letter>>

\* The number that begins a word, 0 when there is none.
Number(word) ==
    LET digits == Max({k \in 0 .. Len(word) : \A j \in 1 .. k : word[j] < 10})
    IN  FoldLeft(LAMBDA n, digit : 10 * n + digit, 0, SubSeq(word, 1, digits))

atoi(word) ==
    IF word # <<>> /\ Head(word) = Minus THEN -Number(Tail(word)) ELSE Number(word)

MCNames ==
    {[part \in NameParts |-> atoi(SubSeq(name, part[1] + 1, part[2]))] :
        name \in {<<Letter, 1, 2>> \o Extension, <<Letter, Minus, 1>> \o Extension}}

=============================================================================
