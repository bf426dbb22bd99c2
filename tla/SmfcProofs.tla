----------------------------- MODULE SmfcProofs -----------------------------
(***************************************************************************)
(* Theorems about Smfc: what exit code 0 means, which files a run touches, *)
(* and that the stubs and servers it generates agree on the wire.          *)
(***************************************************************************)
EXTENDS SmfcTexts, FiniteSetTheorems, WellFoundedInduction, TLAPS

(* Induction over the natural numbers, for a set of them.                  *)
LEMMA AllNaturals ==
  ASSUME NEW T, 0 \in T, \A n \in Nat : n \in T => n + 1 \in T
  PROVE  Nat \subseteq T
<1> DEFINE R == OpToRel(<, Nat)
           S == Nat \ T
<1> SUFFICES ASSUME S # {} PROVE FALSE
  BY Zenon
<1>1. \E n \in S : \A j \in S : <<j, n>> \notin R
  <2>1. IsWellFoundedOn(R, Nat) /\ S \subseteq Nat
    BY Zenon, NatLessThanWellFounded
  <2> HIDE DEF R, S
  <2> QED
    BY Zenon, <2>1, WFMin
<1>2. PICK n \in S : \A j \in S : ~(j < n)
  BY Zenon, <1>1 DEF OpToRel
<1>3. n # 0 /\ n - 1 \in Nat /\ n - 1 < n /\ (n - 1) + 1 = n
  BY <1>2
<1> QED
  BY Zenon, <1>2, <1>3

-----------------------------------------------------------------------------
(* The languages of a command.                                             *)

(* r lists, for each n, the known ones among the first n words.            *)
Splits(r, langs, n) ==
  r = [k \in 0..n |-> IF k = 0 THEN <<>>
                      ELSE IF langs[k] \in Languages THEN Append(r[k - 1], langs[k]) ELSE r[k - 1]]

Known(langs, n) == {l \in Languages : \E i \in 1..n : langs[i] = l}

(* Elements of a sequence with one more at its end, or without its first.  *)
LEMMA SetOfAppend ==
  ASSUME NEW S, NEW s \in Seq(S), NEW e \in S
  PROVE  Range(Append(s, e)) = Range(s) \cup {e}
<1> DEFINE t == Append(s, e)
<1>1. t \in Seq(S) /\ Len(t) = Len(s) + 1 /\ t[Len(s) + 1] = e /\ \A i \in 1..Len(s) : t[i] = s[i]
  OBVIOUS
<1>2. DOMAIN t = 1..(Len(s) + 1) /\ DOMAIN s = 1..Len(s) /\ Len(s) \in Nat
  BY <1>1
<1> HIDE DEF t
<1>3. ASSUME NEW x \in Range(t) PROVE x \in Range(s) \cup {e}
  <2>1. PICK i \in 1..(Len(s) + 1) : x = t[i]
    BY Zenon, <1>2 DEF Range
  <2> QED
    BY <1>1, <1>2, <2>1 DEF Range
<1>4. ASSUME NEW x \in Range(s) \cup {e} PROVE x \in Range(t)
  <2>1. CASE x = e
    <3>1. Len(s) + 1 \in 1..(Len(s) + 1)
      BY <1>2
    <3> QED
      BY Zenon, <1>1, <1>2, <2>1, <3>1 DEF Range
  <2>2. CASE x \in Range(s)
    <3>1. PICK i \in 1..Len(s) : x = s[i]
      BY Zenon, <1>2, <2>2 DEF Range
    <3>2. i \in 1..(Len(s) + 1)
      BY <1>2
    <3> QED
      BY Zenon, <1>1, <1>2, <3>1, <3>2 DEF Range
  <2> QED
    BY Zenon, <2>1, <2>2
<1> QED
  BY Zenon, <1>3, <1>4 DEF t

LEMMA SetOfTail ==
  ASSUME NEW S, NEW s \in Seq(S), s # <<>>
  PROVE  /\ Head(s) \in S /\ Tail(s) \in Seq(S)
         /\ Range(s) = {Head(s)} \cup Range(Tail(s))
<1> DEFINE t == Tail(s)
<1>1. /\ t \in Seq(S) /\ Len(t) = Len(s) - 1 /\ Len(s) \in Nat /\ Len(s) >= 1
      /\ Head(s) = s[1] /\ \A i \in 1..(Len(s) - 1) : t[i] = s[i + 1]
  OBVIOUS
<1>2. DOMAIN t = 1..(Len(s) - 1) /\ DOMAIN s = 1..Len(s)
  BY <1>1
<1> HIDE DEF t
<1>3. ASSUME NEW x \in Range(s) PROVE x \in {Head(s)} \cup Range(t)
  <2>1. PICK i \in 1..Len(s) : x = s[i]
    BY Zenon, <1>2 DEF Range
  <2>2. CASE i = 1
    BY Zenon, <1>1, <2>1, <2>2
  <2>3. CASE i # 1
    <3>1. i - 1 \in 1..(Len(s) - 1) /\ (i - 1) + 1 = i
      BY <1>1, <2>3
    <3>2. t[i - 1] = x
      BY Zenon, <1>1, <2>1, <3>1
    <3> QED
      BY Zenon, <1>2, <3>1, <3>2 DEF Range
  <2> QED
    BY Zenon, <2>2, <2>3
<1>4. ASSUME NEW x \in {Head(s)} \cup Range(t) PROVE x \in Range(s)
  <2>1. CASE x = Head(s)
    BY SMTT(60), <1>1, <1>2, <2>1 DEF Range
  <2>2. CASE x \in Range(t)
    <3>1. PICK i \in 1..(Len(s) - 1) : x = t[i]
      BY Zenon, <1>2, <2>2 DEF Range
    <3>2. i + 1 \in 1..Len(s) /\ x = s[i + 1]
      BY <1>1, <3>1
    <3> QED
      BY Zenon, <1>2, <3>2 DEF Range
  <2> QED
    BY Zenon, <2>1, <2>2
<1> QED
  BY <1>1, <1>3, <1>4 DEF t

(* The loop of split_langs ends, and has kept every known word.            *)
LEMMA SplitsExists ==
  ASSUME NEW langs \in Seq(STRING)
  PROVE  \E r : Splits(r, langs, Len(langs))
<1> DEFINE T == {n \in Nat : \E r : Splits(r, langs, n)}
<1>1. 0 \in T
  <2> DEFINE r == [k \in 0..0 |-> <<>>]
  <2>1. Splits(r, langs, 0)
    BY DEF Splits
  <2> QED
    BY Zenon, <2>1
<1>2. ASSUME NEW n \in Nat, n \in T PROVE n + 1 \in T
  <2>1. PICK r : Splits(r, langs, n)
    BY Zenon, <1>2
  <2> DEFINE e == IF langs[n + 1] \in Languages THEN Append(r[n], langs[n + 1]) ELSE r[n]
             q == [k \in 0..(n + 1) |-> IF k = n + 1 THEN e ELSE r[k]]
  <2>2. ASSUME NEW k \in 0..(n + 1)
        PROVE  q[k] = IF k = 0 THEN <<>>
                      ELSE IF langs[k] \in Languages THEN Append(q[k - 1], langs[k]) ELSE q[k - 1]
    <3>1. CASE k = n + 1
      <4>1. k - 1 = n /\ k # 0 /\ n \in 0..(n + 1) /\ n # n + 1
        BY <3>1
      <4>2. q[k] = e /\ q[k - 1] = r[n]
        BY Zenon, <3>1, <4>1
      <4> HIDE DEF q
      <4> QED
        BY <3>1, <4>1, <4>2, Zenon
    <3>2. CASE k # n + 1
      <4>1. k \in 0..n /\ (k # 0 => k - 1 \in 0..(n + 1) /\ k - 1 # n + 1)
        BY <3>2
      <4>2. q[k] = r[k] /\ (k # 0 => q[k - 1] = r[k - 1])
        BY Zenon, <3>2, <4>1
      <4> HIDE DEF q
      <4>3. r[k] = IF k = 0 THEN <<>>
                   ELSE IF langs[k] \in Languages THEN Append(r[k - 1], langs[k]) ELSE r[k - 1]
        BY Zenon, <2>1, <4>1 DEF Splits
      <4> QED
        BY <4>2, <4>3, Zenon
    <3> QED
      BY Zenon, <3>1, <3>2
  <2>3. q = [k \in DOMAIN q |-> q[k]] /\ DOMAIN q = 0..(n + 1)
    BY Zenon
  <2> HIDE DEF q
  <2>4. Splits(q, langs, n + 1)
    BY Zenon, <2>2, <2>3 DEF Splits
  <2> QED
    BY <2>4
<1> HIDE DEF T
<1>3. Nat \subseteq T
  BY Zenon, <1>1, <1>2, AllNaturals
<1> QED
  BY <1>3 DEF T

LEMMA SplitsKnown ==
  ASSUME NEW langs \in Seq(STRING), NEW r, Splits(r, langs, Len(langs))
  PROVE  \A n \in 0..Len(langs) : r[n] \in Seq(Languages) /\ Range(r[n]) = Known(langs, n)
<1> DEFINE len == Len(langs)
           T == {n \in Nat : n <= len => r[n] \in Seq(Languages) /\ Range(r[n]) = Known(langs, n)}
<1>0. len \in Nat
  OBVIOUS
<1> HIDE DEF len
<1>1. 0 \in T
  <2>1. r[0] = <<>>
    BY <1>0 DEF Splits, len
  <2>2. Known(langs, 0) = {}
    BY DEF Known
  <2>3. Len(r[0]) = 0 /\ r[0] \in Seq(Languages)
    BY <2>1
  <2>4. Range(r[0]) = {}
    <3>1. DOMAIN r[0] = {}
      BY SMTT(60), <2>3
    <3> QED
      BY <3>1, Zenon DEF Range
  <2> QED
    BY Zenon, <2>2, <2>3, <2>4
<1>2. ASSUME NEW n \in Nat, n \in T PROVE n + 1 \in T
  <2> SUFFICES ASSUME n + 1 <= len
               PROVE  r[n + 1] \in Seq(Languages) /\ Range(r[n + 1]) = Known(langs, n + 1)
    OBVIOUS
  <2>1. r[n] \in Seq(Languages) /\ Range(r[n]) = Known(langs, n)
    BY <1>0, <1>2
  <2>2. r[n + 1] = IF langs[n + 1] \in Languages THEN Append(r[n], langs[n + 1]) ELSE r[n]
    <3>1. n + 1 \in 0..len /\ n + 1 # 0 /\ (n + 1) - 1 = n
      BY <1>0
    <3>2. r[n + 1] = IF langs[n + 1] \in Languages THEN Append(r[(n + 1) - 1], langs[n + 1])
                     ELSE r[(n + 1) - 1]
      BY Zenon, <3>1 DEF Splits, len
    <3> QED
      BY <3>1, <3>2, Zenon
  <2>3. Known(langs, n + 1) = Known(langs, n) \cup ({langs[n + 1]} \cap Languages)
    <3>1. \A i : i \in 1..(n + 1) <=> i \in 1..n \/ i = n + 1
      OBVIOUS
    <3> QED
      BY <3>1, Zenon DEF Known
  <2>4. CASE langs[n + 1] \in Languages
    <3>1. r[n + 1] = Append(r[n], langs[n + 1])
      BY Zenon, <2>2, <2>4
    <3>2. r[n + 1] \in Seq(Languages)
      BY SMTT(60), <2>1, <2>4, <3>1
    <3>3. Range(r[n + 1]) = Range(r[n]) \cup {langs[n + 1]}
      BY SMTT(60), <2>1, <2>4, <3>1, SetOfAppend
    <3> QED
      BY ZenonT(60), <2>1, <2>3, <2>4, <3>2, <3>3
  <2>5. CASE langs[n + 1] \notin Languages
    BY Zenon, <2>1, <2>2, <2>3, <2>5
  <2> QED
    BY Zenon, <2>4, <2>5
<1> HIDE DEF T
<1>3. Nat \subseteq T
  BY Zenon, <1>1, <1>2, AllNaturals
<1> QED
  BY SMTT(60), <1>0, <1>3 DEF T, len

(* split_langs keeps the known languages of a command, all of them.        *)
THEOREM KnownLanguages ==
  ASSUME NEW langs \in Seq(STRING)
  PROVE  split_langs(langs) \in Seq(Languages) /\ Range(split_langs(langs)) = Range(langs) \cap Languages
<1> DEFINE r == CHOOSE q : Splits(q, langs, Len(langs))
<1>1. Splits(r, langs, Len(langs))
  BY Zenon, SplitsExists
<1>2. split_langs(langs) = r[Len(langs)]
  BY Zenon DEF split_langs, Splits
<1> HIDE DEF r
<1>3. Len(langs) \in 0..Len(langs) /\ DOMAIN langs = 1..Len(langs)
  OBVIOUS
<1>4. r[Len(langs)] \in Seq(Languages) /\ Range(r[Len(langs)]) = Known(langs, Len(langs))
  BY Zenon, <1>1, <1>3, SplitsKnown
<1>5. Known(langs, Len(langs)) = Range(langs) \cap Languages
  BY <1>3, Zenon DEF Known, Range
<1> QED
  BY Zenon, <1>2, <1>4, <1>5

-----------------------------------------------------------------------------
(* One run.                                                                *)

Wanted == Range(split_langs(cmd.langs))
Saved(l) ==
  LET p == output_filename(cmd, loaded, l) IN p \in DOMAIN files /\ files[p] = <<l, loaded>>

(* A parsed input has a language to be generated in.  Where gen is at work *)
(* there is a language to do, and each language of the command is still to *)
(* do or has its file.                                                     *)
Generating ==
  /\ loaded \in Schemas
  /\ todo \in Seq(Languages) /\ todo # <<>> /\ Range(todo) \subseteq Wanted
  /\ \A l \in Wanted : l \in Range(todo) \/ Saved(l)
  /\ pc # "print" => text = <<Head(todo), loaded>>

SmfcInv ==
  /\ cmd \in Commands
  /\ At("parse") => split_langs(cmd.langs) # <<>>
  /\ Running /\ pc \in {"print", "mkdir", "save", "write"} => Generating

(* Files of different languages have different names.                      *)
LEMMA OwnFiles ==
  ASSUME NEW c, NEW s, NEW l, NEW k, output_filename(c, s, l) = output_filename(c, s, k)
  PROVE  l = k
<1>1. output_filename(c, s, l)[3] = l /\ output_filename(c, s, k)[3] = k
  BY Zenon DEF output_filename
<1> QED
  BY Zenon, <1>1

(* What a step does to the files: nothing, or one of the file of the       *)
(* language at hand.                                                       *)
LEMMA FilesKept ==
  ASSUME NEW l \in Languages, Saved(l), l # Language, UNCHANGED <<cmd, loaded>>,
         \/ UNCHANGED files
         \/ files' = [p \in DOMAIN files \ {Path} |-> files[p]]
         \/ \E c : Store(c)
  PROVE  Saved(l)'
<1> DEFINE q == output_filename(cmd, loaded, l)
<1>1. q # Path
  BY Zenon, OwnFiles DEF Path
<1>2. q \in DOMAIN files /\ files[q] = <<l, loaded>>
  BY Zenon DEF Saved
<1>3. q' = q
  BY Zenon DEF output_filename
<1> HIDE DEF q
<1>4. q \in DOMAIN files' /\ files'[q] = files[q]
  <2>1. CASE UNCHANGED files
    BY Zenon, <1>2, <2>1
  <2>2. CASE files' = [p \in DOMAIN files \ {Path} |-> files[p]]
    BY Zenon, <1>1, <1>2, <2>2
  <2>3. CASE \E c : Store(c)
    <3>1. PICK c : files' = [p \in DOMAIN files \cup {Path} |-> IF p = Path THEN c ELSE files[p]]
      BY Zenon, <2>3 DEF Store
    <3> QED
      BY Zenon, <1>1, <1>2, <3>1
  <2> QED
    BY Zenon, <2>1, <2>2, <2>3
<1>5. Saved(l)' = (q' \in DOMAIN files' /\ files'[q'] = <<l, loaded'>>)
  BY Zenon DEF Saved, q
<1> QED
  BY Zenon, <1>2, <1>3, <1>4, <1>5

(* At first nothing is parsed.                                             *)
LEMMA InitSmfc == Init => SmfcInv /\ SuccessMeansComplete
  BY Zenon, SmfcAssumption DEF Init, SmfcInv, SuccessMeansComplete, At

(* Every step keeps the invariant and what exit code 0 says.               *)
LEMMA NextSmfc == SmfcInv /\ SuccessMeansComplete /\ [Next]_vars => SmfcInv' /\ SuccessMeansComplete'
<1> SUFFICES ASSUME SmfcInv, SuccessMeansComplete, [Next]_vars
             PROVE  SmfcInv' /\ SuccessMeansComplete'
  BY Zenon
<1>n. None \notin {"ok", "error", "abort", "killed"}
  BY Zenon, SmfcAssumption
<1>g. Running => code # "ok"
  BY Zenon, <1>n DEF Running
<1>l. split_langs(cmd.langs) \in Seq(Languages) /\ Wanted \subseteq Languages
  BY Zenon, KnownLanguages, SmfcAssumption DEF SmfcInv, Wanted
<1>x. ASSUME NEW c \in {"error", "abort", "killed"}, Exit(c), UNCHANGED cmd
      PROVE  SmfcInv' /\ SuccessMeansComplete'
  BY Zenon, <1>n, <1>x DEF Exit, SmfcInv, SuccessMeansComplete, Running, At
<1>y. ASSUME Running, UNCHANGED <<cmd, code>>, pc' \in {"codegen", "parse"},
             pc' = "parse" => split_langs(cmd.langs) # <<>>
      PROVE  SmfcInv' /\ SuccessMeansComplete'
  BY Zenon, <1>g, <1>y DEF SmfcInv, SuccessMeansComplete, Running, At
<1>z. ASSUME Running, UNCHANGED <<cmd, code>>, pc' \in {"print", "mkdir", "save", "write"}, Generating'
      PROVE  SmfcInv' /\ SuccessMeansComplete'
  BY Zenon, <1>g, <1>z DEF SmfcInv, SuccessMeansComplete, Running, At
<1>1. CASE Flags
  <2>1. Running /\ UNCHANGED cmd /\ (Exit("error") \/ Exit("abort") \/ Goto("codegen"))
    BY Zenon, <1>1 DEF Flags, run, At
  <2> QED
    BY Zenon, <1>x, <1>y, <2>1 DEF Goto
<1>2. CASE Construct
  <2>1. /\ Running /\ UNCHANGED cmd
        /\ Exit("abort") \/ (Goto("parse") /\ split_langs(cmd.langs) # <<>>)
    BY Zenon, <1>2 DEF Construct, run, At
  <2> QED
    BY Zenon, <1>x, <1>y, <2>1 DEF Goto
<1>3. CASE Parse
  <2>1. CASE input \in Schemas
    <3>1. /\ Running /\ loaded' \in Schemas /\ todo' = split_langs(cmd.langs)
          /\ pc' = "print" /\ UNCHANGED <<cmd, code>>
      BY Zenon, <1>3, <2>1 DEF Parse, Goto, At
    <3>2. split_langs(cmd.langs) # <<>>
      BY Zenon, <1>3 DEF SmfcInv, Parse
    <3>3. Generating'
      BY Zenon, <1>l, <3>1, <3>2 DEF Generating, Wanted
    <3> QED
      BY Zenon, <1>z, <3>1, <3>3
  <2>2. CASE input \notin Schemas
    BY Zenon, <1>3, <1>x, <2>2 DEF Parse
  <2> QED
    BY Zenon, <2>1, <2>2
<1>4. CASE PrintText
  <2>0. At("print") /\ Running /\ Generating
    BY Zenon, <1>4 DEF PrintText, At, SmfcInv
  <2>1. text' = <<Head(todo), loaded>> /\ UNCHANGED <<cmd, loaded, todo, files>>
    BY Zenon, <1>4 DEF PrintText, disk, Language
  <2>2. Exit("abort") \/ Goto("save") \/ Goto("mkdir")
    BY Zenon, <1>4 DEF PrintText
  <2>3. Generating'
    BY Zenon, <2>0, <2>1 DEF Generating, Wanted, Saved
  <2> QED
    BY ZenonT(60), <1>x, <1>z, <2>0, <2>1, <2>2, <2>3 DEF Goto
<1>5. CASE CreateDirectories
  <2>0. At("mkdir") /\ Running /\ Generating
    BY Zenon, <1>5 DEF CreateDirectories, At, SmfcInv
  <2>1. UNCHANGED <<cmd, loaded, todo, text, files, code>> /\ pc' = "save" /\ pc = "mkdir"
    BY Zenon, <1>5 DEF CreateDirectories, run, Goto, At
  <2>2. Generating'
    BY Zenon, <2>0, <2>1 DEF Generating, Wanted, Saved
  <2> QED
    BY Zenon, <1>z, <2>0, <2>1, <2>2
<1>6. CASE FilesystemThrows
  BY Zenon, <1>6, <1>x DEF FilesystemThrows, run
<1>7. CASE RemoveOld
  <2>0. Running /\ Generating /\ pc = "save"
    BY Zenon, <1>7 DEF RemoveOld, At, SmfcInv
  <2>1. UNCHANGED <<cmd, loaded, todo, text, code>> /\ pc' = "write"
    BY Zenon, <1>7 DEF RemoveOld, run, Goto
  <2>2. ASSUME NEW l \in Wanted PROVE l \in Range(todo) \/ Saved(l)'
    <3>1. Language \in Range(todo)
      BY ZenonT(60), <2>0, SetOfTail DEF Generating, Language
    <3> QED
      BY ZenonT(60), <1>7, <1>l, <2>0, <2>1, <3>1, FilesKept DEF Generating, RemoveOld
  <2>3. Generating'
    BY ZenonT(60), <2>0, <2>1, <2>2 DEF Generating, Wanted
  <2> QED
    BY Zenon, <1>z, <2>0, <2>1, <2>3
<1>8. CASE Save
  <2>0. Running /\ Generating /\ pc = "write" /\ text = <<Language, loaded>>
    BY Zenon, <1>8 DEF Save, At, SmfcInv, Generating, Language
  <2>1. /\ UNCHANGED <<cmd, loaded>> /\ Store(text) /\ todo' = Tail(todo)
        /\ IF Tail(todo) = <<>> THEN Exit("ok") ELSE Goto("print")
    BY Zenon, <1>8 DEF Save, NextLanguage
  <2>2. /\ Tail(todo) \in Seq(Languages) /\ Range(todo) = {Language} \cup Range(Tail(todo))
    BY Zenon, <2>0, SetOfTail DEF Generating, Language
  <2>3. ASSUME NEW l, l = Language PROVE Saved(l)'
    <3>1. output_filename(cmd, loaded, l)' = Path
      BY Zenon, <2>1, <2>3 DEF output_filename, Path
    <3>2. Path \in DOMAIN files' /\ files'[Path] = text
      BY Zenon, <2>1 DEF Store
    <3>3. <<l, loaded'>> = text
      BY Zenon, <2>0, <2>1, <2>3
    <3> QED
      BY <3>1, <3>2, <3>3, Zenon DEF Saved
  <2>4. ASSUME NEW l \in Wanted PROVE l \in Range(Tail(todo)) \/ Saved(l)'
    BY ZenonT(60), <1>l, <2>0, <2>1, <2>2, <2>3, FilesKept DEF Generating
  <2>5. CASE Tail(todo) = <<>>
    <3>1. Range(Tail(todo)) = {}
      BY <2>2, <2>5 DEF Range
    <3>2. \A l \in Wanted' : Saved(l)'
      BY ZenonT(60), <2>1, <2>4, <3>1 DEF Wanted
    <3>3. SuccessMeansComplete'
      BY ZenonT(60), <3>2 DEF SuccessMeansComplete, Wanted, Saved
    <3>4. code' = "ok"
      BY ZenonT(60), <2>1, <2>5 DEF Exit
    <3> QED
      BY ZenonT(60), <1>n, <2>1, <3>3, <3>4 DEF SmfcInv, Running, At
  <2>6. CASE Tail(todo) # <<>>
    <3>1. pc' = "print" /\ UNCHANGED code
      BY ZenonT(60), <2>1, <2>6 DEF Goto
    <3>2. Generating'
      BY ZenonT(60), <2>0, <2>1, <2>2, <2>4, <2>6, <3>1 DEF Generating, Wanted
    <3> QED
      BY ZenonT(60), <1>z, <2>0, <2>1, <3>1, <3>2
  <2> QED
    BY Zenon, <2>5, <2>6
<1>9. CASE SaveFails
  BY ZenonT(60), <1>9, <1>x DEF SaveFails, run
<1>10. CASE Killed
  BY Zenon, <1>10, <1>x DEF Killed, run
<1>11. CASE Edit
  <2>1. UNCHANGED <<cmd, loaded, todo, text, pc, code, files>>
    BY Zenon, <1>11 DEF Edit, run
  <2> QED
    BY Zenon, <2>1 DEF SmfcInv, SuccessMeansComplete, Generating, Running, At, Wanted, Saved
<1>12. CASE Again
  <2>1. cmd' \in Commands /\ pc' = "flags" /\ code' = None
    BY ZenonT(60), <1>12 DEF Again
  <2> QED
    BY ZenonT(60), <1>n, <2>1 DEF SmfcInv, SuccessMeansComplete, At
<1>13. CASE UNCHANGED vars
  <2>1. UNCHANGED <<cmd, loaded, todo, text, pc, code, files>>
    BY Zenon, <1>13 DEF vars
  <2> QED
    BY Zenon, <2>1 DEF SmfcInv, SuccessMeansComplete, Generating, Running, At, Wanted, Saved
<1> QED
  BY ZenonT(60), <1>1, <1>2, <1>3, <1>4, <1>5, <1>6, <1>7, <1>8, <1>9, <1>10, <1>11, <1>12,
     <1>13 DEF Next, Step

(* Exit code 0 means that every known language of the command has its      *)
(* whole file, for any commands, schemas and number of runs, whatever      *)
(* failed or was killed before.                                            *)
THEOREM SuccessIsComplete == Spec => []SuccessMeansComplete
  BY InitSmfc, NextSmfc, PTL DEF Spec

(* A run leaves alone every file that is not one of its command, and all   *)
(* files until it has parsed the input.                                    *)
THEOREM RunsKeepToTheirFiles == Spec => OthersUntouched
<1>1. SmfcInv /\ [Next]_vars =>
        [\A p \in DOMAIN files \cup DOMAIN files' :
           (p \in DOMAIN files /\ p \in DOMAIN files' /\ files[p] = files'[p])
             \/ (loaded # None /\ p \in Requested)]_files
  <2> SUFFICES ASSUME SmfcInv, [Next]_vars, files' # files,
                      NEW p \in DOMAIN files \cup DOMAIN files'
               PROVE  (p \in DOMAIN files /\ p \in DOMAIN files' /\ files[p] = files'[p])
                        \/ (loaded # None /\ p \in Requested)
    BY Zenon
  <2>1. /\ Running /\ pc \in {"save", "write"}
        /\ files' = [q \in DOMAIN files \ {Path} |-> files[q]] \/ \E c : Store(c)
    BY Zenon DEF Next, Step, vars, run, disk, Flags, Construct, Parse, PrintText, CreateDirectories,
           FilesystemThrows, RemoveOld, Save, SaveFails, Killed, Edit, Again, At
  <2>2. Generating
    BY Zenon, <2>1 DEF SmfcInv
  <2>3. loaded # None
    BY Zenon, <2>2, SmfcAssumption DEF Generating
  <2>4. Path \in Requested
    <3>1. Language \in Range(split_langs(cmd.langs))
      BY ZenonT(60), <2>2, SetOfTail DEF Generating, Wanted, Language
    <3> QED
      BY Zenon, <3>1 DEF Requested, Path
  <2>5. CASE p = Path
    BY Zenon, <2>3, <2>4, <2>5
  <2>6. CASE p # Path
    <3>1. CASE files' = [q \in DOMAIN files \ {Path} |-> files[q]]
      BY Zenon, <2>6, <3>1
    <3>2. CASE \E c : Store(c)
      <4>1. PICK c : files' = [q \in DOMAIN files \cup {Path} |-> IF q = Path THEN c ELSE files[q]]
        BY Zenon, <3>2 DEF Store
      <4> QED
        BY Zenon, <2>6, <4>1
    <3> QED
      BY Zenon, <2>1, <3>1, <3>2
  <2> QED
    BY Zenon, <2>5, <2>6
<1> QED
  BY <1>1, InitSmfc, NextSmfc, PTL DEF Spec, OthersUntouched

-----------------------------------------------------------------------------
(* Texts one after the other.                                              *)

(* A text is a sequence of tokens, whatever they are.                      *)
IsSeq(s) == s \in Seq(Range(s))

(* A sequence over any set is a text.                                      *)
LEMMA TextOver == ASSUME NEW S, NEW s \in Seq(S) PROVE IsSeq(s) /\ Range(s) \subseteq S
  BY DEF Range, IsSeq

(* Texts one after the other have the tokens of both.                      *)
LEMMA Joined ==
  ASSUME NEW a, NEW b, IsSeq(a), IsSeq(b)
  PROVE  /\ IsSeq(a \o b) /\ Range(a \o b) = Range(a) \cup Range(b)
         /\ Len(a \o b) = Len(a) + Len(b) /\ Len(a) \in Nat /\ Len(b) \in Nat
         /\ \A i \in 1..Len(a) : (a \o b)[i] = a[i]
         /\ \A i \in 1..Len(b) : (a \o b)[Len(a) + i] = b[i]
<1> DEFINE S == Range(a) \cup Range(b)
           c == a \o b
<1>1. a \in Seq(S) /\ b \in Seq(S)
  BY DEF IsSeq
<1> HIDE DEF S
<1>2. /\ c \in Seq(S) /\ Len(c) = Len(a) + Len(b) /\ Len(a) \in Nat /\ Len(b) \in Nat
      /\ \A i \in 1..Len(a) : c[i] = a[i]
      /\ \A i \in 1..Len(b) : c[Len(a) + i] = b[i]
      /\ DOMAIN a = 1..Len(a) /\ DOMAIN b = 1..Len(b) /\ DOMAIN c = 1..Len(c)
  BY <1>1
<1> HIDE DEF c
<1>3. ASSUME NEW i \in 1..Len(c)
      PROVE  i \in 1..Len(a) \/ \E j \in 1..Len(b) : i = Len(a) + j
  <2>1. i \in 1..Len(a) \/ (i - Len(a) \in 1..Len(b) /\ i = Len(a) + (i - Len(a)))
    BY <1>2
  <2> QED
    BY Zenon, <2>1
<1>4. ASSUME NEW x \in Range(c) PROVE x \in Range(a) \cup Range(b)
  <2>1. PICK i \in 1..Len(c) : x = c[i]
    BY Zenon, <1>2 DEF Range
  <2>2. CASE i \in 1..Len(a)
    BY Zenon, <1>2, <2>1, <2>2 DEF Range
  <2>3. CASE \E j \in 1..Len(b) : i = Len(a) + j
    BY Zenon, <1>2, <2>1, <2>3 DEF Range
  <2> QED
    BY Zenon, <1>3, <2>2, <2>3
<1>5. \A i \in 1..Len(a) : i \in 1..Len(c)
  BY <1>2
<1>6. \A i \in 1..Len(b) : Len(a) + i \in 1..Len(c)
  BY <1>2
<1>7. Range(a) \cup Range(b) \subseteq Range(c)
  BY ZenonT(60), <1>2, <1>5, <1>6 DEF Range
<1>8. IsSeq(c)
  BY Zenon, <1>2, TextOver
<1> QED
  BY Zenon, <1>2, <1>4, <1>7, <1>8 DEF c

(* The empty text adds nothing to a text.                                  *)
LEMMA JoinEmpty ==
  ASSUME NEW a, IsSeq(a)
  PROVE  a \o <<>> = a /\ <<>> \o a = a
  BY DEF IsSeq

(* Joining texts is associative.                                           *)
Associate(a, b, c) == (a \o b) \o c = a \o (b \o c)

LEMMA JoinAssociative ==
  ASSUME NEW a, NEW b, NEW c, IsSeq(a), IsSeq(b), IsSeq(c)
  PROVE  Associate(a, b, c)
<1> DEFINE S == (Range(a) \cup Range(b)) \cup Range(c)
<1>1. a \in Seq(S) /\ b \in Seq(S) /\ c \in Seq(S)
  BY DEF IsSeq
<1> HIDE DEF S
<1> QED
  BY SMTT(60), <1>1 DEF Associate

(* What Concat has joined after each text.                                 *)
Joins(f, ss, n) == f = [i \in 0..n |-> IF i = 0 THEN <<>> ELSE f[i - 1] \o ss[i]]

(* The texts of ss, joined one by one.                                     *)
Prefixes(f, ss, n) ==
  /\ f[0] = <<>> /\ f[n] = Concat(ss)
  /\ \A i \in 0..n : IsSeq(f[i])
  /\ \A i \in 0..(n - 1) : f[i + 1] = f[i] \o ss[i + 1]

(* ss is a list of n texts.                                                *)
TextsOf(ss, n) == ss = [i \in 1..n |-> ss[i]] /\ \A i \in 1..n : IsSeq(ss[i])

(* Such a function exists for every list, so Concat is the last of its     *)
(* values.                                                                 *)
LEMMA JoinsExists ==
  ASSUME NEW ss, NEW len \in Nat
  PROVE  \E f : Joins(f, ss, len)
<1> DEFINE T == {n \in Nat : \E f : Joins(f, ss, n)}
<1>1. 0 \in T
  <2> DEFINE f == [i \in 0..0 |-> <<>>]
  <2>1. Joins(f, ss, 0)
    BY DEF Joins
  <2> QED
    BY Zenon, <2>1
<1>2. ASSUME NEW k \in Nat, k \in T PROVE k + 1 \in T
  <2>1. PICK f : Joins(f, ss, k)
    BY Zenon, <1>2
  <2> DEFINE e == f[k] \o ss[k + 1]
             q == [i \in 0..(k + 1) |-> IF i = k + 1 THEN e ELSE f[i]]
  <2>2. ASSUME NEW i \in 0..(k + 1)
        PROVE  q[i] = IF i = 0 THEN <<>> ELSE q[i - 1] \o ss[i]
    <3>1. CASE i = k + 1
      <4>1. i - 1 = k /\ i # 0 /\ k \in 0..(k + 1) /\ k # k + 1
        BY <3>1
      <4>2. q[i] = e /\ q[i - 1] = f[k]
        BY Zenon, <3>1, <4>1
      <4> QED
        BY Zenon, <3>1, <4>1, <4>2
    <3>2. CASE i # k + 1
      <4>1. i \in 0..k /\ (i # 0 => i - 1 \in 0..(k + 1) /\ i - 1 # k + 1)
        BY <3>2
      <4>2. q[i] = f[i] /\ (i # 0 => q[i - 1] = f[i - 1])
        BY Zenon, <3>2, <4>1
      <4>3. f[i] = IF i = 0 THEN <<>> ELSE f[i - 1] \o ss[i]
        BY Zenon, <2>1, <4>1 DEF Joins
      <4> HIDE DEF q
      <4> QED
        BY Zenon, <4>2, <4>3
    <3> QED
      BY Zenon, <3>1, <3>2
  <2>3. q = [i \in DOMAIN q |-> q[i]] /\ DOMAIN q = 0..(k + 1)
    BY Zenon
  <2> HIDE DEF q
  <2>4. Joins(q, ss, k + 1)
    BY Zenon, <2>2, <2>3 DEF Joins
  <2> QED
    BY <2>4
<1> HIDE DEF T
<1>3. Nat \subseteq T
  BY Zenon, <1>1, <1>2, AllNaturals
<1> QED
  BY Zenon, <1>3 DEF T

(* Concat is what is left when every text has been joined.                 *)
LEMMA ConcatPrefixes ==
  ASSUME NEW n \in Nat, NEW ss, TextsOf(ss, n)
  PROVE  \E f : Prefixes(f, ss, n)
<1> DEFINE f == CHOOSE g : Joins(g, ss, n)
<1>1. Joins(f, ss, n)
  BY Zenon, JoinsExists
<1>2. Len(ss) = n
  BY DEF TextsOf
<1>3. Concat(ss) = f[n]
  BY Zenon, <1>2 DEF Concat, Joins
<1> HIDE DEF f
<1>4. f[0] = <<>>
  BY <1>1 DEF Joins
<1>5. ASSUME NEW i \in 0..(n - 1) PROVE f[i + 1] = f[i] \o ss[i + 1]
  <2>1. i + 1 \in 0..n /\ i + 1 # 0 /\ (i + 1) - 1 = i
    OBVIOUS
  <2>2. f[i + 1] = f[(i + 1) - 1] \o ss[i + 1]
    BY Zenon, <1>1, <2>1 DEF Joins
  <2> QED
    BY Zenon, <2>1, <2>2
<1> DEFINE T == {i \in Nat : i <= n => IsSeq(f[i])}
<1>6. 0 \in T
  <2>1. <<>> \in Seq({})
    OBVIOUS
  <2> QED
    BY Zenon, <1>4, <2>1, TextOver
<1>7. ASSUME NEW i \in Nat, i \in T PROVE i + 1 \in T
  <2> SUFFICES ASSUME i + 1 <= n PROVE IsSeq(f[i + 1])
    OBVIOUS
  <2>1. i \in 0..(n - 1) /\ i + 1 \in 1..n /\ i <= n
    OBVIOUS
  <2>2. IsSeq(ss[i + 1]) /\ IsSeq(f[i])
    BY Zenon, <1>7, <2>1 DEF TextsOf
  <2>3. IsSeq(f[i] \o ss[i + 1])
    BY Zenon, <2>2, Joined
  <2> QED
    BY Zenon, <1>5, <2>1, <2>3
<1>8. Nat \subseteq T
  <2> HIDE DEF T
  <2> QED
    BY Zenon, <1>6, <1>7, AllNaturals
<1>9. \A i \in 0..n : IsSeq(f[i])
  BY <1>8
<1> QED
  BY Zenon, <1>3, <1>4, <1>5, <1>9 DEF Prefixes

(* Concatenated texts have the tokens of them all.                            *)
LEMMA ConcatTokens ==
  ASSUME NEW n \in Nat, NEW ss, TextsOf(ss, n)
  PROVE  /\ IsSeq(Concat(ss))
         /\ Range(Concat(ss)) = UNION {Range(ss[i]) : i \in 1..n}
<1>1. PICK f : Prefixes(f, ss, n)
  BY Zenon, ConcatPrefixes
<1> DEFINE All(k) == UNION {Range(ss[i]) : i \in 1..k}
           T == {k \in Nat : k <= n => Range(f[k]) = All(k)}
<1>2. 0 \in T
  <2>1. Range(f[0]) = {}
    BY <1>1 DEF Prefixes, Range
  <2>2. 1..0 = {}
    OBVIOUS
  <2>3. All(0) = {}
    BY Zenon, <2>2
  <2> HIDE DEF All
  <2> QED
    BY Zenon, <2>1, <2>3
<1>3. ASSUME NEW k \in Nat, k \in T PROVE k + 1 \in T
  <2> SUFFICES ASSUME k + 1 <= n PROVE Range(f[k + 1]) = All(k + 1)
    OBVIOUS
  <2>1. k \in 0..(n - 1) /\ k \in 0..n /\ k + 1 \in 1..n /\ k <= n
    OBVIOUS
  <2>2. f[k + 1] = f[k] \o ss[k + 1]
    BY Zenon, <1>1, <2>1 DEF Prefixes
  <2>t. IsSeq(f[k]) /\ IsSeq(ss[k + 1])
    BY Zenon, <1>1, <2>1 DEF Prefixes, TextsOf
  <2>3. Range(f[k]) = All(k)
    BY Zenon, <1>3, <2>1
  <2>4. \A i : i \in 1..(k + 1) <=> i \in 1..k \/ i = k + 1
    OBVIOUS
  <2>5. All(k + 1) = All(k) \cup Range(ss[k + 1])
    BY Zenon, <2>4
  <2>6. Range(f[k] \o ss[k + 1]) = Range(f[k]) \cup Range(ss[k + 1])
    BY ZenonT(60), <2>t, Joined
  <2> HIDE DEF All
  <2> QED
    BY Zenon, <2>2, <2>3, <2>5, <2>6
<1> HIDE DEF T
<1>4. Nat \subseteq T
  BY Zenon, <1>2, <1>3, AllNaturals
<1>5. n <= n /\ n \in 0..n
  OBVIOUS
<1> QED
  BY Zenon, <1>1, <1>4, <1>5 DEF T, Prefixes

(* Flattening what is split in two.                                        *)
SplitIn(uu, ss, n, tt, m) ==
  /\ n \in Nat /\ m \in Nat /\ TextsOf(ss, n) /\ TextsOf(tt, m) /\ TextsOf(uu, n + m)
  /\ \A i \in 1..n : uu[i] = ss[i]
  /\ \A i \in 1..m : uu[n + i] = tt[i]

(* Concat of one list after another is the one Concat after the other.     *)
LEMMA ConcatJoin ==
  ASSUME NEW n, NEW m, NEW ss, NEW tt, NEW uu, SplitIn(uu, ss, n, tt, m)
  PROVE  Concat(uu) = Concat(ss) \o Concat(tt)
<1> USE DEF SplitIn
<1>0. n + m \in Nat
  OBVIOUS
<1>1. PICK f : Prefixes(f, ss, n)
  BY Zenon, ConcatPrefixes
<1>2. PICK g : Prefixes(g, tt, m)
  BY Zenon, ConcatPrefixes
<1>3. PICK h : Prefixes(h, uu, n + m)
  BY Zenon, <1>0, ConcatPrefixes
<1> DEFINE T == {k \in Nat : k <= n => h[k] = f[k]}
           U == {k \in Nat : k <= m => h[n + k] = f[n] \o g[k]}
<1>4. 0 \in T
  BY Zenon, <1>1, <1>3 DEF Prefixes
<1>5. ASSUME NEW k \in Nat, k \in T PROVE k + 1 \in T
  <2> SUFFICES ASSUME k + 1 <= n PROVE h[k + 1] = f[k + 1]
    OBVIOUS
  <2>1. k \in 0..(n - 1) /\ k \in 0..((n + m) - 1) /\ k + 1 \in 1..n /\ k <= n
    OBVIOUS
  <2>2. f[k + 1] = f[k] \o ss[k + 1] /\ h[k + 1] = h[k] \o uu[k + 1]
    BY Zenon, <1>1, <1>3, <2>1 DEF Prefixes
  <2> QED
    BY Zenon, <1>5, <2>1, <2>2
<1>6. Nat \subseteq T
  <2> HIDE DEF T
  <2> QED
    BY Zenon, <1>4, <1>5, AllNaturals
<1>7. h[n] = f[n] /\ IsSeq(f[n])
  <2>1. n <= n /\ n \in 0..n
    OBVIOUS
  <2> QED
    BY Zenon, <1>6, <1>1, <2>1 DEF Prefixes
<1> HIDE DEF T
<1>8. 0 \in U
  <2>1. n + 0 = n
    OBVIOUS
  <2>2. f[n] \o g[0] = f[n]
    BY Zenon, <1>2, <1>7, JoinEmpty DEF Prefixes
  <2> QED
    BY Zenon, <1>7, <2>1, <2>2
<1>9. ASSUME NEW k \in Nat, k \in U PROVE k + 1 \in U
  <2>0. k + 1 \in Nat
    OBVIOUS
  <2> SUFFICES ASSUME k + 1 <= m PROVE h[n + (k + 1)] = f[n] \o g[k + 1]
    BY Zenon, <2>0
  <2>1. /\ k \in 0..(m - 1) /\ k \in 0..m /\ n + k \in 0..((n + m) - 1) /\ k + 1 \in 1..m /\ k <= m
        /\ n + (k + 1) = (n + k) + 1
    OBVIOUS
  <2>2. g[k + 1] = g[k] \o tt[k + 1]
    BY Zenon, <1>2, <2>1 DEF Prefixes
  <2>t. IsSeq(f[n]) /\ IsSeq(g[k]) /\ IsSeq(tt[k + 1])
    BY Zenon, <1>2, <1>7, <2>1 DEF Prefixes, TextsOf
  <2>3. h[n + (k + 1)] = h[n + k] \o uu[n + (k + 1)]
    BY Zenon, <1>3, <2>1 DEF Prefixes
  <2>4. h[n + k] = f[n] \o g[k] /\ uu[n + (k + 1)] = tt[k + 1]
    BY Zenon, <1>9, <2>1
  <2>5. (f[n] \o g[k]) \o tt[k + 1] = f[n] \o (g[k] \o tt[k + 1])
    <3>1. Associate(f[n], g[k], tt[k + 1])
      BY Zenon, <2>t, JoinAssociative
    <3> QED
      BY Zenon, <3>1 DEF Associate
  <2> QED
    BY Zenon, <2>2, <2>3, <2>4, <2>5
<1>10. Nat \subseteq U
  <2> HIDE DEF U
  <2> QED
    BY Zenon, <1>8, <1>9, AllNaturals
<1>11. m <= m
  OBVIOUS
<1> QED
  BY Zenon, <1>1, <1>2, <1>3, <1>10, <1>11 DEF Prefixes

(* Joining texts of which only one has tokens.                          *)
LEMMA ConcatOnly ==
  ASSUME NEW n \in Nat, NEW ss, TextsOf(ss, n), NEW j \in 1..n,
         \A i \in 1..n : i # j => ss[i] = <<>>
  PROVE  Concat(ss) = ss[j]
<1>1. PICK f : Prefixes(f, ss, n)
  BY Zenon, ConcatPrefixes
<1>s. IsSeq(ss[j])
  BY Zenon DEF TextsOf
<1> DEFINE T == {k \in Nat : k <= n => f[k] = IF k < j THEN <<>> ELSE ss[j]}
<1>2. 0 \in T
  BY <1>1 DEF Prefixes
<1>3. ASSUME NEW k \in Nat, k \in T PROVE k + 1 \in T
  <2> SUFFICES ASSUME k + 1 <= n PROVE f[k + 1] = IF k + 1 < j THEN <<>> ELSE ss[j]
    OBVIOUS
  <2>1. k \in 0..(n - 1) /\ k \in 0..n /\ k + 1 \in 1..n /\ k <= n
    OBVIOUS
  <2>2. f[k + 1] = f[k] \o ss[k + 1] /\ IsSeq(f[k])
    BY Zenon, <1>1, <2>1 DEF Prefixes
  <2>3. f[k] = IF k < j THEN <<>> ELSE ss[j]
    BY Zenon, <1>3, <2>1
  <2>4. CASE k + 1 = j
    <3>1. k < j /\ ~(k + 1 < j)
      BY <2>4
    <3> QED
      BY Zenon, <1>s, <2>2, <2>3, <2>4, <3>1, JoinEmpty
  <2>5. CASE k + 1 # j
    <3>1. k < j <=> k + 1 < j
      BY <2>5
    <3>2. f[k + 1] = f[k]
      BY Zenon, <2>1, <2>2, <2>5, JoinEmpty
    <3> QED
      BY Zenon, <2>3, <3>1, <3>2
  <2> QED
    BY Zenon, <2>4, <2>5
<1> HIDE DEF T
<1>4. Nat \subseteq T
  BY Zenon, <1>2, <1>3, AllNaturals
<1>5. n <= n /\ ~(n < j)
  OBVIOUS
<1> QED
  BY Zenon, <1>1, <1>4, <1>5 DEF T, Prefixes

(* Joining texts of one token each.                                     *)
LEMMA ConcatOnes ==
  ASSUME NEW n \in Nat, NEW ss, TextsOf(ss, n), NEW S, NEW x \in [1..n -> S],
         \A i \in 1..n : ss[i] = <<x[i]>>
  PROVE  Concat(ss) = x
<1>1. PICK f : Prefixes(f, ss, n)
  BY Zenon, ConcatPrefixes
<1> DEFINE T == {k \in Nat : k <= n => f[k] = [i \in 1..k |-> x[i]]}
<1>2. 0 \in T
  <2>1. <<>> = [i \in 1..0 |-> x[i]]
    OBVIOUS
  <2> QED
    BY Zenon, <1>1, <2>1 DEF Prefixes
<1>3. ASSUME NEW k \in Nat, k \in T PROVE k + 1 \in T
  <2> SUFFICES ASSUME k + 1 <= n PROVE f[k + 1] = [i \in 1..(k + 1) |-> x[i]]
    OBVIOUS
  <2>1. k \in 0..(n - 1) /\ k + 1 \in 1..n /\ k <= n
    OBVIOUS
  <2>2. f[k + 1] = [i \in 1..k |-> x[i]] \o <<x[k + 1]>>
    BY Zenon, <1>1, <1>3, <2>1 DEF Prefixes
  <2>3. \A i \in 1..(k + 1) : x[i] \in S
    BY <2>1
  <2>4. [i \in 1..k |-> x[i]] \o <<x[k + 1]>> = [i \in 1..(k + 1) |-> x[i]]
    BY <2>3
  <2> QED
    BY Zenon, <2>2, <2>4
<1> HIDE DEF T
<1>4. Nat \subseteq T
  BY Zenon, <1>2, <1>3, AllNaturals
<1>5. n <= n /\ x = [i \in 1..n |-> x[i]]
  OBVIOUS
<1> QED
  BY Zenon, <1>1, <1>4, <1>5 DEF T, Prefixes

-----------------------------------------------------------------------------
(* The wire tokens of a text.                                              *)

(* What a generated file says about the wire: the entries of the table of  *)
(* handles of a C++ service, the cases that pick one of them or a Go       *)
(* method by the id of the request, and the stubs of clients.              *)
IsWire(t) == t[1] \in {"handle", "case", "gocase", "stub"}
Wire(s) == {t \in Range(s) : IsWire(t)}
Carries(s, X) == IsSeq(s) /\ Wire(s) = X

(* Which tokens are about the wire.                                        *)
LEMMA TokenKinds ==
  /\ ~IsWire(Indent) /\ ~IsWire(Outdent)
  /\ \A x : /\ ~IsWire(Open(x)) /\ ~IsWire(Close(x)) /\ ~IsWire(Level(x)) /\ ~IsWire(Decl(x))
            /\ ~IsWire(Def(x)) /\ ~IsWire(Import(x)) /\ ~IsWire(Use(x))
  /\ \A x, t : ~IsWire(Ref(x, t))
  /\ \A id, s, m : /\ IsWire(Handle(s, m)) /\ IsWire(Case(id, s, m)) /\ IsWire(GoCase(id, s, m))
                   /\ IsWire(Stub(id, s, m))
  BY DEF IsWire, Indent, Outdent, Open, Close, Level, Decl, Def, Import, Use, Ref, Handle, Case,
         GoCase, Stub

(* Texts of a few tokens, none of them about the wire.                     *)
LEMMA Plain1 ==
  ASSUME NEW a1, ~IsWire(a1)
  PROVE  Carries(<<a1>>, {})
<1>1. <<a1>>
        \in Seq({a1})
  BY SMTT(60)
<1>2. Range(<<a1>>)
        = {a1}
  BY SMTT(60) DEF Range
<1> QED
  BY ZenonT(60), <1>1, <1>2 DEF Carries, IsSeq, Wire

LEMMA Plain2 ==
  ASSUME NEW a1, NEW a2, ~IsWire(a1), ~IsWire(a2)
  PROVE  Carries(<<a1, a2>>, {})
<1>1. <<a1, a2>>
        \in Seq({a1, a2})
  BY SMTT(60)
<1>2. Range(<<a1, a2>>)
        = {a1, a2}
  BY SMTT(60) DEF Range
<1> QED
  BY ZenonT(60), <1>1, <1>2 DEF Carries, IsSeq, Wire

LEMMA Plain3 ==
  ASSUME NEW a1, NEW a2, NEW a3, ~IsWire(a1), ~IsWire(a2), ~IsWire(a3)
  PROVE  Carries(<<a1, a2, a3>>, {})
<1>1. <<a1, a2, a3>>
        \in Seq({a1, a2, a3})
  BY SMTT(60)
<1>2. Range(<<a1, a2, a3>>)
        = {a1, a2, a3}
  BY SMTT(60) DEF Range
<1> QED
  BY ZenonT(60), <1>1, <1>2 DEF Carries, IsSeq, Wire

LEMMA Plain4 ==
  ASSUME NEW a1, NEW a2, NEW a3, NEW a4, ~IsWire(a1), ~IsWire(a2), ~IsWire(a3), ~IsWire(a4)
  PROVE  Carries(<<a1, a2, a3, a4>>, {})
<1>1. <<a1, a2, a3, a4>>
        \in Seq({a1, a2, a3, a4})
  BY SMTT(60)
<1>2. Range(<<a1, a2, a3, a4>>)
        = {a1, a2, a3, a4}
  BY SMTT(60) DEF Range
<1> QED
  BY ZenonT(60), <1>1, <1>2 DEF Carries, IsSeq, Wire

LEMMA Plain5 ==
  ASSUME NEW a1, NEW a2, NEW a3, NEW a4, NEW a5, ~IsWire(a1), ~IsWire(a2), ~IsWire(a3),
         ~IsWire(a4), ~IsWire(a5)
  PROVE  Carries(<<a1, a2, a3, a4, a5>>, {})
<1>1. <<a1, a2, a3, a4, a5>>
        \in Seq({a1, a2, a3, a4, a5})
  BY SMTT(60)
<1>2. Range(<<a1, a2, a3, a4, a5>>)
        = {a1, a2, a3, a4, a5}
  BY SMTT(60) DEF Range
<1> QED
  BY ZenonT(60), <1>1, <1>2 DEF Carries, IsSeq, Wire

LEMMA Plain7 ==
  ASSUME NEW a1, NEW a2, NEW a3, NEW a4, NEW a5, NEW a6, NEW a7, ~IsWire(a1), ~IsWire(a2),
         ~IsWire(a3), ~IsWire(a4), ~IsWire(a5), ~IsWire(a6), ~IsWire(a7)
  PROVE  Carries(<<a1, a2, a3, a4, a5, a6, a7>>, {})
<1>1. <<a1, a2, a3, a4, a5, a6, a7>>
        \in Seq({a1, a2, a3, a4, a5, a6, a7})
  BY SMTT(60)
<1>2. Range(<<a1, a2, a3, a4, a5, a6, a7>>)
        = {a1, a2, a3, a4, a5, a6, a7}
  BY SMTT(60) DEF Range
<1> QED
  BY ZenonT(60), <1>1, <1>2 DEF Carries, IsSeq, Wire

LEMMA Plain8 ==
  ASSUME NEW a1, NEW a2, NEW a3, NEW a4, NEW a5, NEW a6, NEW a7, NEW a8, ~IsWire(a1),
         ~IsWire(a2), ~IsWire(a3), ~IsWire(a4), ~IsWire(a5), ~IsWire(a6), ~IsWire(a7),
         ~IsWire(a8)
  PROVE  Carries(<<a1, a2, a3, a4, a5, a6, a7, a8>>, {})
<1>1. <<a1, a2, a3, a4, a5, a6, a7, a8>>
        \in Seq({a1, a2, a3, a4, a5, a6, a7, a8})
  BY SMTT(60)
<1>2. Range(<<a1, a2, a3, a4, a5, a6, a7, a8>>)
        = {a1, a2, a3, a4, a5, a6, a7, a8}
  BY SMTT(60) DEF Range
<1> QED
  BY ZenonT(60), <1>1, <1>2 DEF Carries, IsSeq, Wire

LEMMA Plain9 ==
  ASSUME NEW a1, NEW a2, NEW a3, NEW a4, NEW a5, NEW a6, NEW a7, NEW a8, NEW a9, ~IsWire(a1),
         ~IsWire(a2), ~IsWire(a3), ~IsWire(a4), ~IsWire(a5), ~IsWire(a6), ~IsWire(a7),
         ~IsWire(a8), ~IsWire(a9)
  PROVE  Carries(<<a1, a2, a3, a4, a5, a6, a7, a8, a9>>, {})
<1>1. <<a1, a2, a3, a4, a5, a6, a7, a8, a9>>
        \in Seq({a1, a2, a3, a4, a5, a6, a7, a8, a9})
  BY SMTT(60)
<1>2. Range(<<a1, a2, a3, a4, a5, a6, a7, a8, a9>>)
        = {a1, a2, a3, a4, a5, a6, a7, a8, a9}
  BY SMTT(60) DEF Range
<1> QED
  BY ZenonT(60), <1>1, <1>2 DEF Carries, IsSeq, Wire

LEMMA Plain10 ==
  ASSUME NEW a1, NEW a2, NEW a3, NEW a4, NEW a5, NEW a6, NEW a7, NEW a8, NEW a9, NEW a10,
         ~IsWire(a1), ~IsWire(a2), ~IsWire(a3), ~IsWire(a4), ~IsWire(a5), ~IsWire(a6),
         ~IsWire(a7), ~IsWire(a8), ~IsWire(a9), ~IsWire(a10)
  PROVE  Carries(<<a1, a2, a3, a4, a5, a6, a7, a8, a9, a10>>, {})
<1>1. <<a1, a2, a3, a4, a5, a6, a7, a8, a9, a10>>
        \in Seq({a1, a2, a3, a4, a5, a6, a7, a8, a9, a10})
  BY SMTT(60)
<1>2. Range(<<a1, a2, a3, a4, a5, a6, a7, a8, a9, a10>>)
        = {a1, a2, a3, a4, a5, a6, a7, a8, a9, a10}
  BY SMTT(60) DEF Range
<1> QED
  BY ZenonT(60), <1>1, <1>2 DEF Carries, IsSeq, Wire

LEMMA Plain19 ==
  ASSUME NEW a1, NEW a2, NEW a3, NEW a4, NEW a5, NEW a6, NEW a7, NEW a8, NEW a9, NEW a10,
         NEW a11, NEW a12, NEW a13, NEW a14, NEW a15, NEW a16, NEW a17, NEW a18, NEW a19,
         ~IsWire(a1), ~IsWire(a2), ~IsWire(a3), ~IsWire(a4), ~IsWire(a5), ~IsWire(a6),
         ~IsWire(a7), ~IsWire(a8), ~IsWire(a9), ~IsWire(a10), ~IsWire(a11), ~IsWire(a12),
         ~IsWire(a13), ~IsWire(a14), ~IsWire(a15), ~IsWire(a16), ~IsWire(a17), ~IsWire(a18),
         ~IsWire(a19)
  PROVE  Carries(<<a1, a2, a3, a4, a5, a6, a7, a8, a9, a10, a11, a12, a13, a14, a15, a16, a17, a18, a19>>, {})
<1>1. <<a1, a2, a3, a4, a5, a6, a7, a8, a9, a10, a11, a12, a13, a14, a15, a16, a17, a18, a19>>
        \in Seq({a1, a2, a3, a4, a5, a6, a7, a8, a9, a10, a11, a12, a13, a14, a15, a16, a17, a18, a19})
  BY SMTT(60)
<1>2. Range(<<a1, a2, a3, a4, a5, a6, a7, a8, a9, a10, a11, a12, a13, a14, a15, a16, a17, a18, a19>>)
        = {a1, a2, a3, a4, a5, a6, a7, a8, a9, a10, a11, a12, a13, a14, a15, a16, a17, a18, a19}
  BY SMTT(60) DEF Range
<1> QED
  BY ZenonT(60), <1>1, <1>2 DEF Carries, IsSeq, Wire

(* Texts of a few tokens of which one is about the wire.                   *)
LEMMA Wire1Of4 ==
  ASSUME NEW a1, NEW a2, NEW a3, NEW a4, IsWire(a1), ~IsWire(a2), ~IsWire(a3), ~IsWire(a4)
  PROVE  Carries(<<a1, a2, a3, a4>>, {a1})
<1>1. <<a1, a2, a3, a4>>
        \in Seq({a1, a2, a3, a4})
  BY SMTT(60)
<1>2. Range(<<a1, a2, a3, a4>>)
        = {a1, a2, a3, a4}
  BY SMTT(60) DEF Range
<1> QED
  BY ZenonT(60), <1>1, <1>2 DEF Carries, IsSeq, Wire

LEMMA Wire5Of8 ==
  ASSUME NEW a1, NEW a2, NEW a3, NEW a4, NEW a5, NEW a6, NEW a7, NEW a8, ~IsWire(a1),
         ~IsWire(a2), ~IsWire(a3), ~IsWire(a4), IsWire(a5), ~IsWire(a6), ~IsWire(a7),
         ~IsWire(a8)
  PROVE  Carries(<<a1, a2, a3, a4, a5, a6, a7, a8>>, {a5})
<1>1. <<a1, a2, a3, a4, a5, a6, a7, a8>>
        \in Seq({a1, a2, a3, a4, a5, a6, a7, a8})
  BY SMTT(60)
<1>2. Range(<<a1, a2, a3, a4, a5, a6, a7, a8>>)
        = {a1, a2, a3, a4, a5, a6, a7, a8}
  BY SMTT(60) DEF Range
<1> QED
  BY ZenonT(60), <1>1, <1>2 DEF Carries, IsSeq, Wire

LEMMA Wire10Of12 ==
  ASSUME NEW a1, NEW a2, NEW a3, NEW a4, NEW a5, NEW a6, NEW a7, NEW a8, NEW a9, NEW a10,
         NEW a11, NEW a12, ~IsWire(a1), ~IsWire(a2), ~IsWire(a3), ~IsWire(a4), ~IsWire(a5),
         ~IsWire(a6), ~IsWire(a7), ~IsWire(a8), ~IsWire(a9), IsWire(a10), ~IsWire(a11),
         ~IsWire(a12)
  PROVE  Carries(<<a1, a2, a3, a4, a5, a6, a7, a8, a9, a10, a11, a12>>, {a10})
<1>1. <<a1, a2, a3, a4, a5, a6, a7, a8, a9, a10, a11, a12>>
        \in Seq({a1, a2, a3, a4, a5, a6, a7, a8, a9, a10, a11, a12})
  BY SMTT(60)
<1>2. Range(<<a1, a2, a3, a4, a5, a6, a7, a8, a9, a10, a11, a12>>)
        = {a1, a2, a3, a4, a5, a6, a7, a8, a9, a10, a11, a12}
  BY SMTT(60) DEF Range
<1> QED
  BY ZenonT(60), <1>1, <1>2 DEF Carries, IsSeq, Wire

LEMMA Wire5Of16 ==
  ASSUME NEW a1, NEW a2, NEW a3, NEW a4, NEW a5, NEW a6, NEW a7, NEW a8, NEW a9, NEW a10,
         NEW a11, NEW a12, NEW a13, NEW a14, NEW a15, NEW a16, ~IsWire(a1), ~IsWire(a2),
         ~IsWire(a3), ~IsWire(a4), IsWire(a5), ~IsWire(a6), ~IsWire(a7), ~IsWire(a8),
         ~IsWire(a9), ~IsWire(a10), ~IsWire(a11), ~IsWire(a12), ~IsWire(a13), ~IsWire(a14),
         ~IsWire(a15), ~IsWire(a16)
  PROVE  Carries(<<a1, a2, a3, a4, a5, a6, a7, a8, a9, a10, a11, a12, a13, a14, a15, a16>>, {a5})
<1>1. <<a1, a2, a3, a4, a5, a6, a7, a8, a9, a10, a11, a12, a13, a14, a15, a16>>
        \in Seq({a1, a2, a3, a4, a5, a6, a7, a8, a9, a10, a11, a12, a13, a14, a15, a16})
  BY SMTT(60)
<1>2. Range(<<a1, a2, a3, a4, a5, a6, a7, a8, a9, a10, a11, a12, a13, a14, a15, a16>>)
        = {a1, a2, a3, a4, a5, a6, a7, a8, a9, a10, a11, a12, a13, a14, a15, a16}
  BY SMTT(60) DEF Range
<1> QED
  BY ZenonT(60), <1>1, <1>2 DEF Carries, IsSeq, Wire

LEMMA Wire16Of18 ==
  ASSUME NEW a1, NEW a2, NEW a3, NEW a4, NEW a5, NEW a6, NEW a7, NEW a8, NEW a9, NEW a10,
         NEW a11, NEW a12, NEW a13, NEW a14, NEW a15, NEW a16, NEW a17, NEW a18, ~IsWire(a1),
         ~IsWire(a2), ~IsWire(a3), ~IsWire(a4), ~IsWire(a5), ~IsWire(a6), ~IsWire(a7),
         ~IsWire(a8), ~IsWire(a9), ~IsWire(a10), ~IsWire(a11), ~IsWire(a12), ~IsWire(a13),
         ~IsWire(a14), ~IsWire(a15), IsWire(a16), ~IsWire(a17), ~IsWire(a18)
  PROVE  Carries(<<a1, a2, a3, a4, a5, a6, a7, a8, a9, a10, a11, a12, a13, a14, a15, a16, a17, a18>>, {a16})
<1>1. <<a1, a2, a3, a4, a5, a6, a7, a8, a9, a10, a11, a12, a13, a14, a15, a16, a17, a18>>
        \in Seq({a1, a2, a3, a4, a5, a6, a7, a8, a9, a10, a11, a12, a13, a14, a15, a16, a17, a18})
  BY SMTT(60)
<1>2. Range(<<a1, a2, a3, a4, a5, a6, a7, a8, a9, a10, a11, a12, a13, a14, a15, a16, a17, a18>>)
        = {a1, a2, a3, a4, a5, a6, a7, a8, a9, a10, a11, a12, a13, a14, a15, a16, a17, a18}
  BY SMTT(60) DEF Range
<1> QED
  BY ZenonT(60), <1>1, <1>2 DEF Carries, IsSeq, Wire

(* Texts one after the other carry what each of them carries.              *)
LEMMA CarriesJoin ==
  ASSUME NEW a, NEW b, NEW X, NEW Y, Carries(a, X), Carries(b, Y)
  PROVE  Carries(a \o b, X \cup Y)
<1>1. IsSeq(a) /\ IsSeq(b) /\ Wire(a) = X /\ Wire(b) = Y
  BY Zenon DEF Carries
<1>2. IsSeq(a \o b) /\ Range(a \o b) = Range(a) \cup Range(b)
  BY Zenon, <1>1, Joined
<1> QED
  BY ZenonT(60), <1>1, <1>2 DEF Carries, Wire

(* A text without wire tokens adds none, before or after.                  *)
LEMMA CarriesMore ==
  ASSUME NEW a, NEW b, NEW X, Carries(a, X), Carries(b, {})
  PROVE  Carries(a \o b, X) /\ Carries(b \o a, X)
<1>1. X \cup {} = X /\ {} \cup X = X
  BY Zenon
<1>2. Carries(a \o b, X \cup {}) /\ Carries(b \o a, {} \cup X)
  BY Zenon, CarriesJoin
<1> QED
  BY Zenon, <1>1, <1>2

(* The wire tokens of a list of texts are those of its texts.              *)
LEMMA CarriesAll ==
  ASSUME NEW n \in Nat, NEW ss, ss = [i \in 1..n |-> ss[i]], NEW X,
         \A i \in 1..n : IsSeq(ss[i]),
         \A x : x \in X <=> \E i \in 1..n : x \in Wire(ss[i])
  PROVE  Carries(Concat(ss), X)
<1>1. TextsOf(ss, n)
  BY Zenon DEF TextsOf
<1>2. IsSeq(Concat(ss)) /\ Range(Concat(ss)) = UNION {Range(ss[i]) : i \in 1..n}
  BY Zenon, <1>1, ConcatTokens
<1> DEFINE all == Range(Concat(ss))
<1>3. \A x : x \in all <=> \E i \in 1..n : x \in Range(ss[i])
  BY Zenon, <1>2
<1>4. Wire(Concat(ss)) = {x \in all : IsWire(x)}
  BY Zenon DEF Wire
<1> HIDE DEF all
<1>5. \A x : x \in X <=> x \in all /\ IsWire(x)
  BY ZenonT(60), <1>3 DEF Wire
<1>6. {x \in all : IsWire(x)} = X
  BY ZenonT(60), <1>5
<1> QED
  BY Zenon, <1>2, <1>4, <1>6 DEF Carries

(* A list of texts without wire tokens has none.                           *)
LEMMA CarriesNone ==
  ASSUME NEW n \in Nat, NEW ss, ss = [i \in 1..n |-> ss[i]],
         \A i \in 1..n : Carries(ss[i], {})
  PROVE  Carries(Concat(ss), {})
<1>1. \A i \in 1..n : IsSeq(ss[i])
  BY Zenon DEF Carries
<1>2. \A x : x \in {} <=> \E i \in 1..n : x \in Wire(ss[i])
  BY Zenon DEF Carries
<1> QED
  BY ZenonT(60), <1>1, <1>2, CarriesAll

-----------------------------------------------------------------------------
(* The table of handles of a C++ service.                                  *)

(* What a text is made of.                                                 *)
LEMMA SeqFacts ==
  ASSUME NEW q, IsSeq(q)
  PROVE  Len(q) \in Nat /\ DOMAIN q = 1..Len(q) /\ Range(q) = {q[i] : i \in 1..Len(q)}
<1>1. Len(q) \in Nat /\ DOMAIN q = 1..Len(q)
  BY DEF IsSeq
<1> QED
  BY Zenon, <1>1 DEF Range

(* The entries of the handles of service x, in the order of the text: a    *)
(* C++ case gives its position in this list.                               *)
Picks(a, x) == [i \in 1..Len(a) |-> IF IsEntry(a[i], x) THEN <<a[i]>> ELSE <<>>]
Handles(a, x) == Concat(Picks(a, x))
Lists(a, x, e) == IsSeq(a) /\ Handles(a, x) = e

(* Handles(a, x) is the Concat of one entry or nothing for each token.     *)
LEMMA PicksTexts ==
  ASSUME NEW a, NEW x, IsSeq(a)
  PROVE  /\ Len(a) \in Nat /\ TextsOf(Picks(a, x), Len(a))
         /\ Handles(a, x) = Concat(Picks(a, x)) /\ IsSeq(Handles(a, x))
<1>1. Len(a) \in Nat
  BY Zenon, SeqFacts
<1>2. IsSeq(<<>>) /\ \A t : IsSeq(<<t>>)
  BY DEF IsSeq, Range
<1>3. TextsOf(Picks(a, x), Len(a))
  BY Zenon, <1>2 DEF TextsOf, Picks
<1>4. Handles(a, x) = Concat(Picks(a, x))
  BY Zenon DEF Handles
<1>5. IsSeq(Concat(Picks(a, x)))
  BY Zenon, <1>1, <1>3, ConcatTokens
<1> QED
  BY Zenon, <1>1, <1>3, <1>4, <1>5

(* The handles of texts one after the other.                               *)
LEMMA HandlesJoin ==
  ASSUME NEW a, NEW b, NEW x, IsSeq(a), IsSeq(b)
  PROVE  Handles(a \o b, x) = Handles(a, x) \o Handles(b, x)
<1> DEFINE c == a \o b
           n == Len(a)
           m == Len(b)
<1>1. /\ IsSeq(c) /\ Len(c) = n + m /\ n \in Nat /\ m \in Nat
      /\ \A i \in 1..n : c[i] = a[i]
      /\ \A i \in 1..m : c[n + i] = b[i]
  BY Joined
<1> HIDE DEF c
<1>2. \A i \in 1..n : i \in 1..Len(c)
  BY <1>1
<1>3. \A i \in 1..m : n + i \in 1..Len(c)
  BY <1>1
<1>4. /\ \A i \in 1..n : Picks(c, x)[i] = Picks(a, x)[i]
      /\ \A i \in 1..m : Picks(c, x)[n + i] = Picks(b, x)[i]
  BY Zenon, <1>1, <1>2, <1>3 DEF Picks
<1>5. TextsOf(Picks(a, x), n) /\ TextsOf(Picks(b, x), m)
  BY Zenon, PicksTexts
<1>6. TextsOf(Picks(c, x), n + m)
  <2>1. IsSeq(c)
    BY Zenon, <1>1
  <2>2. TextsOf(Picks(c, x), Len(c))
    BY Zenon, <2>1, PicksTexts
  <2> QED
    BY Zenon, <1>1, <2>2
<1>7. Concat(Picks(c, x)) = Concat(Picks(a, x)) \o Concat(Picks(b, x))
  <2> DEFINE p == Picks(a, x)
             q == Picks(b, x)
             u == Picks(c, x)
  <2> HIDE DEF n, m
  <2>0. n \in Nat /\ m \in Nat
    BY Zenon, <1>1
  <2>1. SplitIn(u, p, n, q, m)
    BY ZenonT(60), <2>0, <1>4, <1>5, <1>6 DEF SplitIn
  <2> HIDE DEF p, q, u
  <2>2. Concat(u) = Concat(p) \o Concat(q)
    BY <2>1, ConcatJoin
  <2> QED
    BY Zenon, <2>2 DEF p, q, u
<1>8. Handles(c, x) = Concat(Picks(c, x)) /\ Handles(a, x) = Concat(Picks(a, x))
        /\ Handles(b, x) = Concat(Picks(b, x))
  BY Zenon, <1>1, PicksTexts
<1> QED
  BY Zenon, <1>7, <1>8 DEF c

(* A text without an entry for x lists no handles of it.                   *)
LEMMA HandlesNone ==
  ASSUME NEW a, NEW x, IsSeq(a), \A t \in Wire(a) : ~IsEntry(t, x)
  PROVE  Handles(a, x) = <<>>
<1> DEFINE n == Len(a)
           h == Handles(a, x)
<1>1. n \in Nat /\ Range(a) = {a[i] : i \in 1..n}
  BY Zenon, SeqFacts
<1>2. \A t : IsEntry(t, x) => IsWire(t)
  BY Zenon DEF IsEntry, IsWire
<1>3. \A i \in 1..n : ~IsEntry(a[i], x)
  BY Zenon, <1>1, <1>2 DEF Wire
<1>4. \A i \in 1..n : Picks(a, x)[i] = <<>>
  BY Zenon, <1>3 DEF Picks
<1>5. TextsOf(Picks(a, x), n) /\ h = Concat(Picks(a, x)) /\ IsSeq(h)
  BY Zenon, PicksTexts
<1>6. Range(Concat(Picks(a, x))) = UNION {Range(Picks(a, x)[i]) : i \in 1..n}
  BY Zenon, <1>1, <1>5, ConcatTokens
<1>7. Range(<<>>) = {}
  BY DEF Range
<1>8. Range(h) = {}
  <2>1. \A i \in 1..n : Range(Picks(a, x)[i]) = {}
    BY Zenon, <1>4, <1>7
  <2>2. UNION {Range(Picks(a, x)[i]) : i \in 1..n} = {}
    BY Zenon, <2>1
  <2> QED
    BY Zenon, <1>5, <1>6, <2>2
<1> HIDE DEF h
<1> QED
  BY <1>5, <1>8 DEF IsSeq, h

(* Handles(a, x) has the entries of x at their places.                     *)
LEMMA HandlesPlaced ==
  ASSUME NEW a, NEW x, IsSeq(a), NEW p \in 1..Len(Handles(a, x))
  PROVE  EntryAt(a, x, p - 1) = {Handles(a, x)[p][3]}
<1> DEFINE n == Len(a)
           E(k) == {i \in 1..k : IsEntry(a[i], x)}
           c(k) == Cardinality(E(k))
           ss == Picks(a, x)
<1>1. n \in Nat /\ TextsOf(ss, n)
  BY Zenon, PicksTexts
<1>2. PICK f : Prefixes(f, ss, n)
  BY Zenon, <1>1, ConcatPrefixes
<1>3. /\ Handles(a, x) = f[n] /\ f[0] = <<>> /\ \A k \in 0..n : IsSeq(f[k])
      /\ \A k \in 0..(n - 1) : f[k + 1] = f[k] \o ss[k + 1]
  BY Zenon, <1>2 DEF Prefixes, Handles
<1>4. ASSUME NEW k \in Nat
      PROVE  /\ IsFiniteSet(E(k)) /\ c(k) \in Nat
             /\ E(k + 1) = IF IsEntry(a[k + 1], x) THEN E(k) \cup {k + 1} ELSE E(k)
             /\ c(k + 1) = IF IsEntry(a[k + 1], x) THEN c(k) + 1 ELSE c(k)
  <2>1. IsFiniteSet(1..k)
    BY FS_Interval
  <2>2. IsFiniteSet(E(k)) /\ c(k) \in Nat
    BY Zenon, <2>1, FS_Subset, FS_CardinalityType
  <2>3. 1..(k + 1) = (1..k) \cup {k + 1} /\ k + 1 \notin 1..k
    OBVIOUS
  <2>4. E(k + 1) = IF IsEntry(a[k + 1], x) THEN E(k) \cup {k + 1} ELSE E(k)
    BY Zenon, <2>3
  <2>5. k + 1 \notin E(k)
    BY Zenon, <2>3
  <2> HIDE DEF E
  <2>6. Cardinality(E(k) \cup {k + 1}) = c(k) + 1
    BY Zenon, <2>2, <2>5, FS_AddElement
  <2> QED
    BY Zenon, <2>2, <2>4, <2>6
<1> DEFINE Placed(k) == /\ Len(f[k]) = c(k)
                        /\ \A i \in E(k) : c(i - 1) \in Nat /\ c(i - 1) < c(k) /\ f[k][c(i - 1) + 1] = a[i]
                        /\ \A q \in 1..c(k) : \E i \in E(k) : c(i - 1) + 1 = q
           T == {k \in Nat : k <= n => Placed(k)}
<1>5. 0 \in T
  <2>1. E(0) = {}
    OBVIOUS
  <2>2. c(0) = 0
    BY Zenon, <2>1, FS_EmptySet
  <2>3. Len(f[0]) = 0 /\ 1..0 = {}
    BY <1>3
  <2> HIDE DEF E, c
  <2> QED
    BY <2>1, <2>2, <2>3
<1>6. ASSUME NEW k \in Nat, k \in T PROVE k + 1 \in T
  <2>0. k + 1 \in Nat
    OBVIOUS
  <2> SUFFICES ASSUME k + 1 <= n PROVE Placed(k + 1)
    BY Zenon, <2>0
  <2>1. k \in 0..(n - 1) /\ k \in 0..n /\ k + 1 \in 1..n /\ k <= n /\ (k + 1) - 1 = k
    OBVIOUS
  <2>2. Placed(k) /\ f[k + 1] = f[k] \o ss[k + 1] /\ IsSeq(f[k])
    BY Zenon, <1>3, <1>6, <2>1
  <2>3. c(k) \in Nat
    BY Zenon, <1>4
  <2>4. CASE ~IsEntry(a[k + 1], x)
    <3>1. ss[k + 1] = <<>> /\ E(k + 1) = E(k) /\ c(k + 1) = c(k)
      BY Zenon, <1>4, <2>1, <2>4 DEF Picks
    <3>2. f[k + 1] = f[k]
      BY Zenon, <2>2, <3>1, JoinEmpty
    <3> HIDE DEF E, c
    <3> QED
      BY Zenon, <2>2, <3>1, <3>2
  <2>5. CASE IsEntry(a[k + 1], x)
    <3>1. ss[k + 1] = <<a[k + 1]>> /\ E(k + 1) = E(k) \cup {k + 1} /\ c(k + 1) = c(k) + 1
      BY Zenon, <1>4, <2>1, <2>5 DEF Picks
    <3>2. /\ Len(f[k + 1]) = c(k) + 1 /\ f[k + 1][c(k) + 1] = a[k + 1]
          /\ \A q \in 1..c(k) : f[k + 1][q] = f[k][q]
      <4> DEFINE g == f[k]
                 z == a[k + 1]
                 l == c(k)
      <4>1. IsSeq(g) /\ Len(g) = l /\ l \in Nat /\ f[k + 1] = g \o <<z>>
        BY Zenon, <2>2, <2>3, <3>1
      <4> HIDE DEF g, z, l
      <4>2. /\ Len(g \o <<z>>) = l + 1 /\ (g \o <<z>>)[l + 1] = z
            /\ \A q \in 1..l : (g \o <<z>>)[q] = g[q]
        <5>1. IsSeq(<<z>>) /\ Len(<<z>>) = 1 /\ <<z>>[1] = z /\ 1 \in 1..1
          BY DEF IsSeq, Range
        <5> DEFINE y == <<z>>
        <5>y. IsSeq(g) /\ IsSeq(y)
          BY Zenon, <4>1, <5>1
        <5> HIDE DEF y
        <5>2. /\ Len(g \o y) = Len(g) + Len(y) /\ \A q \in 1..Len(g) : (g \o y)[q] = g[q]
              /\ \A q \in 1..Len(y) : (g \o y)[Len(g) + q] = y[q]
          BY <5>y, Joined
        <5>3. (g \o y)[l + 1] = z
          BY ZenonT(60), <4>1, <5>1, <5>2 DEF y
        <5> QED
          BY Zenon, <4>1, <5>1, <5>2, <5>3 DEF y
      <4> QED
        BY Zenon, <4>1, <4>2 DEF g, z, l
    <3>3. \A i \in E(k) : c(i - 1) \in Nat /\ c(i - 1) < c(k) /\ f[k][c(i - 1) + 1] = a[i]
      BY Zenon, <2>2
    <3>4. \A q \in 1..c(k) : \E i \in E(k) : c(i - 1) + 1 = q
      BY Zenon, <2>2
    <3> HIDE DEF E
    <3> DEFINE d(i) == c(i - 1)
    <3>5. d(k + 1) = c(k)
      BY Zenon, <2>1
    <3> HIDE DEF c, d
    <3>6. ASSUME NEW i \in E(k + 1)
          PROVE  d(i) \in Nat /\ d(i) < c(k) + 1 /\ f[k + 1][d(i) + 1] = a[i]
      <4>1. CASE i = k + 1
        BY <2>3, <3>2, <3>5, <4>1
      <4>2. CASE i \in E(k)
        <5>1. d(i) \in Nat /\ d(i) < c(k) /\ f[k][d(i) + 1] = a[i]
          BY Zenon, <3>3, <4>2 DEF d
        <5>2. d(i) + 1 \in 1..c(k) /\ d(i) < c(k) + 1
          BY <2>3, <5>1
        <5> QED
          BY Zenon, <3>2, <5>1, <5>2
      <4> QED
        BY Zenon, <3>1, <4>1, <4>2
    <3>7. ASSUME NEW q \in 1..(c(k) + 1) PROVE \E i \in E(k + 1) : d(i) + 1 = q
      <4>1. q \in 1..c(k) \/ q = c(k) + 1
        BY <2>3
      <4>2. CASE q \in 1..c(k)
        BY Zenon, <3>1, <3>4, <4>2 DEF d
      <4>3. CASE q = c(k) + 1
        BY Zenon, <3>1, <3>5, <4>3
      <4> QED
        BY Zenon, <4>1, <4>2, <4>3
    <3> QED
      BY Zenon, <3>1, <3>2, <3>6, <3>7 DEF d
  <2> QED
    BY Zenon, <2>4, <2>5
<1>7. Placed(n)
  <2>1. Nat \subseteq T
    <3> HIDE DEF T
    <3> QED
      BY Zenon, <1>5, <1>6, AllNaturals
  <2>2. n <= n
    <3> HIDE DEF T
    <3> QED
      BY <1>1
  <2> QED
    BY Zenon, <1>1, <2>1, <2>2
<1>8. \A i \in 1..n : Before(a, x, i) = c(i - 1)
  BY Zenon DEF Before
<1>9. p \in 1..c(n) /\ p \in Nat /\ (p - 1) + 1 = p
  BY <1>3, <1>7
<1>10. PICK i \in E(n) : c(i - 1) + 1 = p
  BY Zenon, <1>7, <1>9
<1>11. \A k \in E(n) : c(k - 1) \in Nat /\ f[n][c(k - 1) + 1] = a[k]
  BY Zenon, <1>7
<1>12. \A k \in E(n) : c(k - 1) = p - 1 <=> c(k - 1) + 1 = p
  <2> HIDE DEF c, E
  <2> QED
    BY <1>9, <1>11
<1>13. EntryAt(a, x, p - 1) = {a[k][3] : k \in {j \in E(n) : c(j - 1) = p - 1}}
  BY Zenon, <1>8 DEF EntryAt
<1>14. \A k \in {j \in E(n) : c(j - 1) = p - 1} : a[k] = f[n][p]
  BY Zenon, <1>11, <1>12
<1>15. i \in {j \in E(n) : c(j - 1) = p - 1}
  BY Zenon, <1>10, <1>12
<1> HIDE DEF E, c
<1>16. EntryAt(a, x, p - 1) = {f[n][p][3]}
  BY Zenon, <1>13, <1>14, <1>15
<1> QED
  BY Zenon, <1>3, <1>16

(* A text without an entry for x leaves the list of x as it is.            *)
LEMMA ListsMore ==
  ASSUME NEW a, NEW b, NEW x, NEW e, NEW Y, Lists(a, x, e), IsSeq(e), Carries(b, Y),
         \A t \in Y : ~IsEntry(t, x)
  PROVE  Lists(a \o b, x, e) /\ Lists(b \o a, x, e)
<1>1. IsSeq(a) /\ Handles(a, x) = e
  BY Zenon DEF Lists
<1>2. IsSeq(b) /\ Wire(b) = Y
  BY Zenon DEF Carries
<1>3. Handles(b, x) = <<>>
  BY Zenon, <1>2, HandlesNone
<1>4. IsSeq(a) /\ IsSeq(b)
  BY Zenon, <1>1, <1>2
<1>5. IsSeq(a \o b) /\ IsSeq(b \o a)
  BY Zenon, <1>4, Joined
<1>6. /\ Handles(a \o b, x) = Handles(a, x) \o Handles(b, x)
      /\ Handles(b \o a, x) = Handles(b, x) \o Handles(a, x)
  BY <1>4, HandlesJoin
<1>7. e \o <<>> = e /\ <<>> \o e = e
  BY Zenon, JoinEmpty
<1> QED
  BY Zenon, <1>1, <1>3, <1>5, <1>6, <1>7 DEF Lists

(* In particular a text without wire tokens.                               *)
LEMMA ListsPlain ==
  ASSUME NEW a, NEW b, NEW x, NEW e, Lists(a, x, e), IsSeq(e), Carries(b, {})
  PROVE  Lists(a \o b, x, e) /\ Lists(b \o a, x, e)
<1> DEFINE Y == {}
<1>1. Carries(b, Y) /\ \A t \in Y : ~IsEntry(t, x)
  BY Zenon
<1> HIDE DEF Y
<1> QED
  BY Zenon, <1>1, ListsMore

(* The handles of a list of texts.                                         *)
LEMMA ListsAll ==
  ASSUME NEW n \in Nat, NEW ss, TextsOf(ss, n), NEW x,
         NEW tt, tt = [i \in 1..n |-> Handles(ss[i], x)]
  PROVE  TextsOf(tt, n) /\ Lists(Concat(ss), x, Concat(tt))
<1>1. \A i \in 1..n : IsSeq(ss[i])
  BY Zenon DEF TextsOf
<1>2. \A i \in 1..n : tt[i] = Handles(ss[i], x) /\ IsSeq(tt[i])
  BY Zenon, <1>1, PicksTexts
<1>3. TextsOf(tt, n)
  BY Zenon, <1>2 DEF TextsOf
<1>4. PICK f : Prefixes(f, ss, n)
  BY Zenon, ConcatPrefixes
<1>5. PICK g : Prefixes(g, tt, n)
  BY Zenon, <1>3, ConcatPrefixes
<1> DEFINE T == {k \in Nat : k <= n => Handles(f[k], x) = g[k]}
<1>6. 0 \in T
  <2>1. f[0] = <<>> /\ g[0] = <<>>
    BY Zenon, <1>4, <1>5 DEF Prefixes
  <2>2. IsSeq(<<>>) /\ Wire(<<>>) = {}
    BY DEF IsSeq, Wire, Range
  <2>3. Handles(<<>>, x) = <<>>
    BY Zenon, <2>2, HandlesNone
  <2> QED
    BY Zenon, <2>1, <2>3
<1>7. ASSUME NEW k \in Nat, k \in T PROVE k + 1 \in T
  <2>0. k + 1 \in Nat
    OBVIOUS
  <2> SUFFICES ASSUME k + 1 <= n PROVE Handles(f[k + 1], x) = g[k + 1]
    BY Zenon, <2>0
  <2>1. k \in 0..(n - 1) /\ k \in 0..n /\ k + 1 \in 1..n /\ k <= n
    OBVIOUS
  <2>2. f[k + 1] = f[k] \o ss[k + 1] /\ g[k + 1] = g[k] \o tt[k + 1]
    BY Zenon, <1>4, <1>5, <2>1 DEF Prefixes
  <2>3. IsSeq(f[k]) /\ IsSeq(ss[k + 1])
    BY Zenon, <1>1, <1>4, <2>1 DEF Prefixes
  <2>4. Handles(f[k] \o ss[k + 1], x) = Handles(f[k], x) \o Handles(ss[k + 1], x)
    <3> DEFINE a == f[k]
               b == ss[k + 1]
    <3>1. IsSeq(a) /\ IsSeq(b)
      BY Zenon, <2>3
    <3> HIDE DEF a, b
    <3>2. Handles(a \o b, x) = Handles(a, x) \o Handles(b, x)
      BY <3>1, HandlesJoin
    <3> QED
      BY Zenon, <3>2 DEF a, b
  <2>5. Handles(f[k], x) = g[k] /\ Handles(ss[k + 1], x) = tt[k + 1]
    BY Zenon, <1>2, <1>7, <2>1
  <2> QED
    BY Zenon, <2>2, <2>4, <2>5
<1> HIDE DEF T
<1>8. Nat \subseteq T
  BY Zenon, <1>6, <1>7, AllNaturals
<1>9. n <= n /\ n \in 0..n
  OBVIOUS
<1> QED
  BY Zenon, <1>3, <1>4, <1>5, <1>8, <1>9 DEF T, Prefixes, Lists

(* The entry that print_header_service_ctor_dtor prints for a method.      *)
LEMMA Entry5Of16 ==
  ASSUME NEW a1, NEW a2, NEW a3, NEW a4, NEW a5, NEW a6, NEW a7, NEW a8, NEW a9, NEW a10, NEW a11,
         NEW a12, NEW a13, NEW a14, NEW a15, NEW a16, ~IsWire(a1), ~IsWire(a2), ~IsWire(a3),
         ~IsWire(a4), ~IsWire(a6), ~IsWire(a7), ~IsWire(a8), ~IsWire(a9), ~IsWire(a10),
         ~IsWire(a11), ~IsWire(a12), ~IsWire(a13), ~IsWire(a14),
         ~IsWire(a15), ~IsWire(a16), NEW x, IsEntry(a5, x)
  PROVE  Lists(<<a1, a2, a3, a4, a5, a6, a7, a8, a9, a10, a11, a12, a13, a14, a15, a16>>, x, <<a5>>)
<1> DEFINE a == <<a1, a2, a3, a4, a5, a6, a7, a8, a9, a10, a11, a12, a13, a14, a15, a16>>
<1>1. Len(a) = 16 /\ a[5] = a5
  BY SMTT(60)
<1>2. ASSUME NEW i \in 1..16, i # 5 PROVE ~IsWire(a[i])
  <2>1. /\ a[1] = a1 /\ a[2] = a2 /\ a[3] = a3 /\ a[4] = a4
        /\ a[5] = a5 /\ a[6] = a6 /\ a[7] = a7 /\ a[8] = a8
    BY SMTT(60)
  <2>2. /\ a[9] = a9 /\ a[10] = a10 /\ a[11] = a11 /\ a[12] = a12
        /\ a[13] = a13 /\ a[14] = a14 /\ a[15] = a15 /\ a[16] = a16
    BY SMTT(60)
  <2>3. i \in {1, 2, 3, 4, 6, 7, 8, 9, 10, 11, 12, 13, 14, 15, 16}
    BY <1>2
  <2> HIDE DEF a
  <2> QED
    BY ZenonT(60), <2>1, <2>2, <2>3
<1>3. IsSeq(a)
  <2>1. a \in Seq({a1, a2, a3, a4, a5, a6, a7, a8, a9, a10, a11, a12, a13, a14, a15, a16})
    BY SMTT(60)
  <2> QED
    BY Zenon, <2>1, TextOver
<1> HIDE DEF a
<1>4. \A t : IsEntry(t, x) => IsWire(t)
  BY Zenon DEF IsEntry, IsWire
<1>5. 5 \in 1..16 /\ 16 \in Nat
  OBVIOUS
<1>6. Picks(a, x)[5] = <<a5>> /\ \A i \in 1..16 : i # 5 => Picks(a, x)[i] = <<>>
  BY Zenon, <1>1, <1>2, <1>4, <1>5 DEF Picks
<1>7. TextsOf(Picks(a, x), 16) /\ Handles(a, x) = Concat(Picks(a, x))
  BY Zenon, <1>1, <1>3, PicksTexts
<1>8. Concat(Picks(a, x)) = Picks(a, x)[5]
  BY ZenonT(60), <1>5, <1>6, <1>7, ConcatOnly
<1>9. Lists(a, x, <<a5>>)
  BY Zenon, <1>3, <1>6, <1>7, <1>8 DEF Lists
<1> QED
  BY Zenon, <1>9 DEF a

-----------------------------------------------------------------------------
(* What is printed for a service.                                          *)

(* The wire tokens of one service, method by method.                       *)
Entries(s) == {Handle(s, s.methods[i]) : i \in 1..Len(s.methods)}
Cases(s) == {Case(RequestIdOf(s, s.methods[i]), s, i - 1) : i \in 1..Len(s.methods)}
GoCases(s) == {GoCase(RequestIdOf(s, s.methods[i]), s, s.methods[i]) : i \in 1..Len(s.methods)}
Stubs(s) == {Stub(RequestIdOf(s, s.methods[i]), s, s.methods[i]) : i \in 1..Len(s.methods)}

(* The table of handles of a service, in the order of its methods.         *)
EntryList(s) == [i \in 1..Len(s.methods) |-> Handle(s, s.methods[i])]

(* Only the entries of a service are in its table.                         *)
LEMMA WireKinds ==
  ASSUME NEW s
  PROVE  /\ \A m : IsEntry(Handle(s, m), s.name)
         /\ \A t \in Entries(s) : \A x : IsEntry(t, x) => x = s.name
         /\ \A t \in Cases(s) \cup Stubs(s) : \A x : ~IsEntry(t, x)
<1>1. \A m : Handle(s, m)[1] = "handle" /\ Handle(s, m)[2] = s.name
  BY DEF Handle
<1>2. \A id, i, m : Case(id, s, i)[1] = "case" /\ Stub(id, s, m)[1] = "stub"
  BY DEF Case, Stub
<1>3. "handle" # "case" /\ "handle" # "stub"
  OBVIOUS
<1> QED
  BY Zenon, <1>1, <1>2, <1>3 DEF Entries, Cases, Stubs, IsEntry

(* The table is a text of entries.                                         *)
LEMMA EntryListSeq ==
  ASSUME NEW s, IsSeq(s.methods)
  PROVE  IsSeq(EntryList(s)) /\ EntryList(s) \in [1..Len(s.methods) -> Entries(s)]
<1>1. Len(s.methods) \in Nat
  BY Zenon, SeqFacts
<1>2. EntryList(s) \in [1..Len(s.methods) -> Entries(s)]
  BY Zenon DEF EntryList, Entries
<1>3. EntryList(s) \in Seq(Entries(s))
  BY <1>1, <1>2
<1> QED
  BY Zenon, <1>2, <1>3, TextOver

(* The constructor of a C++ service fills its table in the order of the    *)
(* methods, and prints no other wire token.                                *)
LEMMA CtorWire ==
  ASSUME NEW s, IsSeq(s.methods)
  PROVE  /\ Carries(print_header_service_ctor_dtor(s), Entries(s))
         /\ Lists(print_header_service_ctor_dtor(s), s.name, EntryList(s))
<1> DEFINE n == Len(s.methods)
           a == <<Def(<<s.name, <<"dtor">>>>), Def(<<s.name, <<"ctor">>>>), Open("{{"), Indent>>
           ss == [i \in 1..n |-> <<Open("("), Indent, Open("{"), Indent, Handle(s, s.methods[i]),
                    Use(CppRaw(s, s.methods[i])), Open("("), Open("{"), Indent, Outdent,
                    Close("{"), Close("("), Close("{"), Close("("), Outdent, Outdent>>]
           b == <<Outdent, Close("{{")>>
<1>1. print_header_service_ctor_dtor(s) = (a \o Concat(ss)) \o b
  BY Zenon DEF print_header_service_ctor_dtor, Each
<1>2. Carries(a, {}) /\ Carries(b, {})
  BY Zenon, TokenKinds, Plain4, Plain2
<1>3. ASSUME NEW i \in 1..n PROVE Carries(ss[i], {Handle(s, s.methods[i])})
  BY Zenon, TokenKinds, Wire5Of16
<1>e. ASSUME NEW i \in 1..n PROVE Lists(ss[i], s.name, <<Handle(s, s.methods[i])>>)
  BY Zenon, TokenKinds, WireKinds, Entry5Of16
<1>4. n \in Nat /\ ss = [i \in 1..n |-> ss[i]]
  BY Zenon, SeqFacts
<1> HIDE DEF a, b, ss
<1>5. \A i \in 1..n : IsSeq(ss[i]) /\ Wire(ss[i]) = {Handle(s, s.methods[i])}
  BY Zenon, <1>3 DEF Carries
<1>6. \A x : x \in Entries(s) <=> \E i \in 1..n : x \in Wire(ss[i])
  BY Zenon, <1>5 DEF Entries
<1> HIDE DEF n
<1>7. Carries(Concat(ss), Entries(s))
  BY Zenon, <1>4, <1>5, <1>6, CarriesAll
<1>8. Carries((a \o Concat(ss)) \o b, Entries(s))
  BY Zenon, <1>2, <1>7, CarriesMore
<1> DEFINE e == EntryList(s)
           x == s.name
           tt == [i \in 1..n |-> Handles(ss[i], x)]
<1>9. TextsOf(ss, n)
  BY Zenon, <1>4, <1>5 DEF TextsOf
<1>10. TextsOf(tt, n) /\ Lists(Concat(ss), x, Concat(tt))
  BY Zenon, <1>4, <1>9, ListsAll
<1>11. e \in [1..n -> Entries(s)] /\ IsSeq(e)
  BY Zenon, EntryListSeq DEF n
<1>12. \A i \in 1..n : tt[i] = <<e[i]>>
  BY Zenon, <1>e DEF Lists, EntryList, n
<1> HIDE DEF tt, x, e
<1>13. Concat(tt) = e
  BY ZenonT(60), <1>4, <1>10, <1>11, <1>12, ConcatOnes
<1>14. Lists(Concat(ss), x, e)
  BY Zenon, <1>10, <1>13
<1>15. Lists(a \o Concat(ss), x, e)
  BY Zenon, <1>2, <1>11, <1>14, ListsPlain
<1>16. Lists((a \o Concat(ss)) \o b, x, e)
  BY Zenon, <1>2, <1>11, <1>15, ListsPlain
<1> QED
  BY Zenon, <1>1, <1>8, <1>16 DEF x, e

(* method_for_request_id has the case of each method, with its position.   *)
LEMMA CasesWire ==
  ASSUME NEW s, IsSeq(s.methods)
  PROVE  Carries(print_header_service_handle_request_id(s), Cases(s))
<1> DEFINE n == Len(s.methods)
           a == <<Def(<<s.name, <<"method_for_request_id">>>>), Open("{"), Indent,
                  Open("{"), Indent>>
           c == [i \in DOMAIN s.methods |-> Case(RequestIdOf(s, s.methods[i]), s, i - 1)]
           b == <<Outdent, Close("{"), Outdent, Close("{")>>
<1>1. print_header_service_handle_request_id(s) = (a \o c) \o b
  BY Zenon DEF print_header_service_handle_request_id
<1>2. Carries(a, {}) /\ Carries(b, {})
  BY Zenon, TokenKinds, Plain5, Plain4
<1>3. n \in Nat /\ DOMAIN s.methods = 1..n
  BY Zenon, SeqFacts
<1>4. Range(c) = Cases(s) /\ \A i \in 1..n : c[i] \in Cases(s)
  BY Zenon, <1>3 DEF Range, Cases
<1>5. DOMAIN c = 1..n /\ c = [i \in 1..n |-> c[i]]
  BY Zenon, <1>3
<1> HIDE DEF a, b, c, n
<1>6. IsSeq(c)
  <2>1. c \in Seq(Range(c))
    BY <1>3, <1>4, <1>5
  <2> QED
    BY Zenon, <2>1 DEF IsSeq
<1>7. \A t \in Cases(s) : IsWire(t)
  BY Zenon, TokenKinds DEF Cases
<1>8. Carries(c, Cases(s))
  BY Zenon, <1>4, <1>6, <1>7 DEF Carries, Wire
<1>9. Carries((a \o c) \o b, Cases(s))
  BY Zenon, <1>2, <1>8, CarriesMore
<1> QED
  BY Zenon, <1>1, <1>9

(* A C++ service class: its table and its cases.                           *)
LEMMA ServiceWire ==
  ASSUME NEW s, IsSeq(s.methods)
  PROVE  /\ Carries(print_header_service(s), Entries(s) \cup Cases(s))
         /\ Lists(print_header_service(s), s.name, EntryList(s))
<1> DEFINE n == Len(s.methods)
           a == <<Def(<<s.name>>), Open("{"), Indent>>
           names == <<"service_name", "service_id", "print">>
           ss == [i \in 1..Len(names) |->
                    <<Def(<<s.name, <<names[i]>>>>), Open("{"), Indent, Outdent, Close("{")>>]
           ms == [i \in 1..n |-> print_header_service_method(s, s.methods[i])]
           b == <<Outdent, Close("{")>>
           h == print_header_service_handles(s)
           c == print_header_service_ctor_dtor(s)
           d == print_header_service_handle_request_id(s)
<1>1. print_header_service(s) = ((((((a \o c) \o Concat(ss)) \o h) \o d) \o Concat(ms)) \o b)
  BY Zenon DEF print_header_service, Each
<1>2. Carries(a, {}) /\ Carries(b, {})
  BY Zenon, TokenKinds, Plain3, Plain2
<1>3. Carries(h, {})
  BY Zenon, TokenKinds, Plain5 DEF print_header_service_handles
<1>4. Carries(c, Entries(s)) /\ Carries(d, Cases(s))
  BY Zenon, CtorWire, CasesWire
<1>5. Carries(Concat(ss), {})
  <2>1. Len(names) \in Nat
    OBVIOUS
  <2> HIDE DEF names
  <2>2. ss = [i \in 1..Len(names) |-> ss[i]]
    BY Zenon
  <2>3. ASSUME NEW i \in 1..Len(names) PROVE Carries(ss[i], {})
    BY Zenon, TokenKinds, Plain5
  <2> HIDE DEF ss
  <2> QED
    BY Zenon, <2>1, <2>2, <2>3, CarriesNone
<1>6. Carries(Concat(ms), {})
  <2>1. n \in Nat /\ ms = [i \in 1..n |-> ms[i]]
    BY Zenon, SeqFacts
  <2>2. ASSUME NEW i \in 1..n PROVE Carries(ms[i], {})
    BY Zenon, TokenKinds, Plain19 DEF print_header_service_method
  <2> HIDE DEF ms
  <2> QED
    BY Zenon, <2>1, <2>2, CarriesNone
<1> HIDE DEF a, b, c, d, h, ss, ms
<1>7. Carries((a \o c) \o Concat(ss), Entries(s))
  BY Zenon, <1>2, <1>4, <1>5, CarriesMore
<1>8. Carries((((a \o c) \o Concat(ss)) \o h) \o d, Entries(s) \cup Cases(s))
  BY Zenon, <1>3, <1>4, <1>7, CarriesMore, CarriesJoin
<1>9. Carries(((((a \o c) \o Concat(ss)) \o h) \o d) \o Concat(ms), Entries(s) \cup Cases(s))
  BY Zenon, <1>6, <1>8, CarriesMore
<1>10. Carries((((((a \o c) \o Concat(ss)) \o h) \o d) \o Concat(ms)) \o b,
               Entries(s) \cup Cases(s))
  BY Zenon, <1>2, <1>9, CarriesMore
<1> DEFINE e == EntryList(s)
           x == s.name
<1>11. Lists(c, x, e) /\ IsSeq(e) /\ \A t \in Cases(s) : ~IsEntry(t, x)
  BY Zenon, CtorWire, EntryListSeq, WireKinds DEF c
<1> HIDE DEF e, x
<1>12. Lists(a \o c, x, e)
  BY Zenon, <1>2, <1>11, ListsPlain
<1>13. Lists((a \o c) \o Concat(ss), x, e)
  BY Zenon, <1>5, <1>11, <1>12, ListsPlain
<1>14. Lists(((a \o c) \o Concat(ss)) \o h, x, e)
  BY Zenon, <1>3, <1>11, <1>13, ListsPlain
<1>15. Lists((((a \o c) \o Concat(ss)) \o h) \o d, x, e)
  BY Zenon, <1>4, <1>11, <1>14, ListsMore
<1>16. Lists(((((a \o c) \o Concat(ss)) \o h) \o d) \o Concat(ms), x, e)
  BY Zenon, <1>6, <1>11, <1>15, ListsPlain
<1>17. Lists((((((a \o c) \o Concat(ss)) \o h) \o d) \o Concat(ms)) \o b, x, e)
  BY Zenon, <1>2, <1>11, <1>16, ListsPlain
<1> QED
  BY Zenon, <1>1, <1>10, <1>17 DEF x, e

(* A C++ client class: the stub of each method.                            *)
LEMMA ClientWire ==
  ASSUME NEW s, IsSeq(s.methods)
  PROVE  Carries(print_header_client(s), Stubs(s))
<1> DEFINE n == Len(s.methods)
           a == <<Def(<<CppClient(s)>>), Open("{"), Indent, Indent>>
           c == <<Def(<<CppClient(s), <<"name">>>>), Open("{"), Indent, Outdent, Close("{")>>
           ss == [i \in 1..n |-> print_header_client_method(s, s.methods[i])]
           b == <<Outdent, Close("{"), Outdent>>
<1>1. print_header_client(s) = ((a \o c) \o Concat(ss)) \o b
  BY Zenon DEF print_header_client, Each
<1>2. Carries(a, {}) /\ Carries(b, {}) /\ Carries(c, {})
  BY Zenon, TokenKinds, Plain4, Plain3, Plain5
<1>3. ASSUME NEW i \in 1..n
      PROVE  Carries(ss[i], {Stub(RequestIdOf(s, s.methods[i]), s, s.methods[i])})
  BY Zenon, TokenKinds, Wire10Of12 DEF print_header_client_method
<1>4. n \in Nat /\ ss = [i \in 1..n |-> ss[i]]
  BY Zenon, SeqFacts
<1> HIDE DEF a, b, c, ss
<1>5. \A i \in 1..n :
        IsSeq(ss[i]) /\ Wire(ss[i]) = {Stub(RequestIdOf(s, s.methods[i]), s, s.methods[i])}
  BY Zenon, <1>3 DEF Carries
<1>6. \A x : x \in Stubs(s) <=> \E i \in 1..n : x \in Wire(ss[i])
  BY Zenon, <1>5 DEF Stubs
<1> HIDE DEF n
<1>7. Carries(Concat(ss), Stubs(s))
  BY Zenon, <1>4, <1>5, <1>6, CarriesAll
<1>8. Carries((a \o c) \o Concat(ss), Stubs(s))
  BY Zenon, <1>2, <1>7, CarriesMore
<1>9. Carries(((a \o c) \o Concat(ss)) \o b, Stubs(s))
  BY Zenon, <1>2, <1>8, CarriesMore
<1> QED
  BY Zenon, <1>1, <1>9

(* The Go jump table: the case of each method.                             *)
LEMMA JumpTableWire ==
  ASSUME NEW s, IsSeq(s.methods)
  PROVE  Carries(print_server_jump_table(s), GoCases(s))
<1> DEFINE n == Len(s.methods)
           a == <<Def(Append(GoService(s), <<"MethodHandle">>)), Open("{"), Indent, Open("{")>>
           ss == [i \in 1..n |-> <<GoCase(RequestIdOf(s, s.methods[i]), s, s.methods[i]), Indent,
                                   Use(GoRaw(GoService(s), s.methods[i])), Outdent>>]
           b == <<Indent, Outdent, Close("{"), Outdent, Close("{")>>
<1>1. print_server_jump_table(s) = (a \o Concat(ss)) \o b
  BY Zenon DEF print_server_jump_table, Each
<1>2. Carries(a, {}) /\ Carries(b, {})
  BY Zenon, TokenKinds, Plain4, Plain5
<1>3. ASSUME NEW i \in 1..n
      PROVE  Carries(ss[i], {GoCase(RequestIdOf(s, s.methods[i]), s, s.methods[i])})
  BY Zenon, TokenKinds, Wire1Of4
<1>4. n \in Nat /\ ss = [i \in 1..n |-> ss[i]]
  BY ZenonT(60), SeqFacts
<1> HIDE DEF a, b, ss
<1>5. \A i \in 1..n :
        IsSeq(ss[i]) /\ Wire(ss[i]) = {GoCase(RequestIdOf(s, s.methods[i]), s, s.methods[i])}
  BY Zenon, <1>3 DEF Carries
<1>6. \A x : x \in GoCases(s) <=> \E i \in 1..n : x \in Wire(ss[i])
  BY Zenon, <1>5 DEF GoCases
<1> HIDE DEF n
<1>7. Carries(Concat(ss), GoCases(s))
  BY Zenon, <1>4, <1>5, <1>6, CarriesAll
<1>8. Carries((a \o Concat(ss)) \o b, GoCases(s))
  BY Zenon, <1>2, <1>7, CarriesMore
<1> QED
  BY Zenon, <1>1, <1>8

(* A Go function without a body that matters says nothing of the wire.     *)
LEMMA FuncWire == ASSUME NEW x PROVE Carries(GoFunc(x), {})
  BY Zenon, TokenKinds, Plain5 DEF GoFunc

(* A Go server: its cases.                                                 *)
LEMMA ServerWire ==
  ASSUME NEW s, IsSeq(s.methods)
  PROVE  Carries(print_server(s), GoCases(s))
<1> DEFINE n == Len(s.methods)
           a == <<Def(GoInterface(s)), Open("{"), Indent>>
           is == [i \in 1..n |-> <<Def(GoMethod(GoInterface(s), s.methods[i])),
                                    Ref(GoType(s.methods[i].in), s.methods[i].in)>>]
           b == <<Outdent, Close("{"), Def(GoService(s)), Open("{"), Indent, Use(GoInterface(s)),
                  Outdent, Close("{")>>
           names == <<"New", "ServiceName", "ServiceID">>
           fs == [i \in 1..Len(names) |-> GoFunc(Append(GoService(s), <<names[i]>>))]
           c == print_server_jump_table(s)
           ms == [i \in 1..n |-> print_server_method(s, s.methods[i])]
<1>1. print_server(s) = ((((a \o Concat(is)) \o b) \o Concat(fs)) \o c) \o Concat(ms)
  BY Zenon DEF print_server, Each
<1>2. Carries(a, {}) /\ Carries(b, {}) /\ Carries(c, GoCases(s))
  BY Zenon, TokenKinds, Plain3, Plain8, JumpTableWire
<1>3. Len(names) \in Nat
  OBVIOUS
<1> HIDE DEF names
<1>4. /\ n \in Nat /\ is = [i \in 1..n |-> is[i]] /\ ms = [i \in 1..n |-> ms[i]]
      /\ fs = [i \in 1..Len(names) |-> fs[i]]
  BY Zenon, SeqFacts
<1>5. /\ \A i \in 1..n : Carries(is[i], {})
      /\ \A i \in 1..Len(names) : Carries(fs[i], {})
  BY Zenon, TokenKinds, Plain2, FuncWire
<1>6. \A i \in 1..n : Carries(ms[i], {})
  BY Zenon, TokenKinds, Plain7 DEF print_server_method
<1> HIDE DEF a, b, c, is, fs, ms, n
<1>7. Carries(Concat(is), {}) /\ Carries(Concat(fs), {}) /\ Carries(Concat(ms), {})
  BY Zenon, <1>3, <1>4, <1>5, <1>6, CarriesNone
<1>8. Carries(((a \o Concat(is)) \o b) \o Concat(fs), {})
  BY Zenon, <1>2, <1>7, CarriesMore
<1>9. Carries(((((a \o Concat(is)) \o b) \o Concat(fs)) \o c) \o Concat(ms), GoCases(s))
  BY ZenonT(60), <1>2, <1>7, <1>8, CarriesMore
<1> QED
  BY Zenon, <1>1, <1>9

(* A Go client: its stubs.                                                 *)
LEMMA GoClientWire ==
  ASSUME NEW s, IsSeq(s.methods)
  PROVE  Carries(go_print_client(s), Stubs(s))
<1> DEFINE n == Len(s.methods)
           a == GoFunc(GoClient(s))
           b == GoFunc(Append(GoClient(s), <<"New">>))
           ss == [i \in 1..n |-> go_print_client_method(s, s.methods[i])]
<1>1. go_print_client(s) = (a \o b) \o Concat(ss)
  BY Zenon DEF go_print_client, Each
<1>2. Carries(a, {}) /\ Carries(b, {})
  BY Zenon, FuncWire
<1>3. ASSUME NEW i \in 1..n
      PROVE  Carries(ss[i], {Stub(RequestIdOf(s, s.methods[i]), s, s.methods[i])})
  BY Zenon, TokenKinds, Wire16Of18 DEF go_print_client_method
<1>4. n \in Nat /\ ss = [i \in 1..n |-> ss[i]]
  BY Zenon, SeqFacts
<1> HIDE DEF a, b, ss
<1>5. \A i \in 1..n :
        IsSeq(ss[i]) /\ Wire(ss[i]) = {Stub(RequestIdOf(s, s.methods[i]), s, s.methods[i])}
  BY Zenon, <1>3 DEF Carries
<1>6. \A x : x \in Stubs(s) <=> \E i \in 1..n : x \in Wire(ss[i])
  BY Zenon, <1>5 DEF Stubs
<1> HIDE DEF n
<1>7. Carries(Concat(ss), Stubs(s))
  BY Zenon, <1>4, <1>5, <1>6, CarriesAll
<1>8. Carries((a \o b) \o Concat(ss), Stubs(s))
  BY Zenon, <1>2, <1>7, CarriesMore
<1> QED
  BY Zenon, <1>1, <1>8

(* A Python client: its stubs.                                             *)
LEMMA PythonClientWire ==
  ASSUME NEW s, IsSeq(s.methods)
  PROVE  Carries(python_print_client(s), Stubs(s))
<1> DEFINE n == Len(s.methods)
           a == <<Level(0), Def(GoClient(s)), Indent, Level(1),
                  Def(Append(GoClient(s), <<"init">>)), Indent, Level(2), Outdent, Outdent>>
           in == <<Indent>>
           out == <<Outdent>>
           ss == [i \in 1..n |-> (in \o python_print_client_method(s, s.methods[i])) \o out]
<1>1. python_print_client(s) = a \o Concat(ss)
  BY Zenon DEF python_print_client, Each
<1>2. Carries(a, {}) /\ Carries(in, {}) /\ Carries(out, {})
  BY Zenon, TokenKinds, Plain9, Plain1
<1>3. ASSUME NEW i \in 1..n
      PROVE  Carries(ss[i], {Stub(RequestIdOf(s, s.methods[i]), s, s.methods[i])})
  <2> DEFINE p == python_print_client_method(s, s.methods[i])
             x == Stub(RequestIdOf(s, s.methods[i]), s, s.methods[i])
  <2>1. Carries(p, {x})
    BY Zenon, TokenKinds, Wire5Of8 DEF python_print_client_method
  <2>2. ss[i] = (in \o p) \o out
    BY Zenon
  <2> HIDE DEF in, out, ss, p, x
  <2>3. Carries(in \o p, {x})
    BY Zenon, <1>2, <2>1, CarriesMore
  <2>4. Carries((in \o p) \o out, {x})
    BY Zenon, <1>2, <2>3, CarriesMore
  <2>5. Carries(ss[i], {x})
    BY Zenon, <2>2, <2>4
  <2> QED
    BY Zenon, <2>5 DEF x
<1>4. n \in Nat /\ ss = [i \in 1..n |-> ss[i]]
  BY Zenon, SeqFacts
<1> HIDE DEF a, in, out, ss
<1>5. \A i \in 1..n :
        IsSeq(ss[i]) /\ Wire(ss[i]) = {Stub(RequestIdOf(s, s.methods[i]), s, s.methods[i])}
  BY Zenon, <1>3 DEF Carries
<1>6. \A x : x \in Stubs(s) <=> \E i \in 1..n : x \in Wire(ss[i])
  BY Zenon, <1>5 DEF Stubs
<1> HIDE DEF n
<1>7. Carries(Concat(ss), Stubs(s))
  BY Zenon, <1>4, <1>5, <1>6, CarriesAll
<1>8. Carries(a \o Concat(ss), Stubs(s))
  BY Zenon, <1>2, <1>7, CarriesMore
<1> QED
  BY Zenon, <1>1, <1>8

-----------------------------------------------------------------------------
(* What is printed for a schema.                                           *)

(* The services smfc prints are a sequence, of services that differ in     *)
(* name.                                                                   *)
LEMMA OwnServices ==
  ASSUME NEW c \in Schemas
  PROVE  /\ IsSeq(Own(c))
         /\ \A s \in Range(Own(c)) : IsSeq(s.methods)
         /\ \A i, j \in 1..Len(Own(c)) : Own(c)[i].name = Own(c)[j].name => i = j
<1> DEFINE n == Len(c.services)
           ss == [i \in 1..n |-> IF c.services[i].generated THEN <<>> ELSE <<c.services[i]>>]
<1>1. /\ IsSeq(c.services)
      /\ \A s \in Range(c.services) : IsSeq(s.methods)
      /\ \A i, j \in DOMAIN c.services :
           /\ ~c.services[i].generated /\ ~c.services[j].generated
           /\ c.services[i].name = c.services[j].name
           => i = j
  BY Zenon, SchemasAssumption DEF IsSeq
<1>2. n \in Nat /\ DOMAIN c.services = 1..n /\ \A i \in 1..n : c.services[i] \in Range(c.services)
  BY Zenon, <1>1, SeqFacts
<1>3. Own(c) = Concat(ss)
  BY Zenon DEF Own, Each
<1>4. /\ \A i \in 1..n : ss[i] = <<>> \/ (ss[i] = <<c.services[i]>> /\ ~c.services[i].generated)
      /\ ss = [i \in 1..n |-> ss[i]]
  BY Zenon
<1> HIDE DEF ss, n
<1>5. TextsOf(ss, n)
  <2>1. IsSeq(<<>>) /\ \A s : IsSeq(<<s>>)
    BY DEF IsSeq, Range
  <2> QED
    BY Zenon, <1>4, <2>1 DEF TextsOf
<1>6. PICK f : Prefixes(f, ss, n)
  BY Zenon, <1>2, <1>5, ConcatPrefixes
(* After k services: those printed come from the first k, in order.        *)
<1> DEFINE From(k, x) == \E i \in 1..k : c.services[i] = x /\ ~c.services[i].generated
           Good(k) == /\ IsSeq(f[k])
                      /\ \A i \in 1..Len(f[k]) : From(k, f[k][i])
                      /\ \A i, j \in 1..Len(f[k]) : f[k][i].name = f[k][j].name => i = j
           T == {k \in Nat : k <= n => Good(k)}
<1>7. 0 \in T
  <2>1. f[0] = <<>> /\ IsSeq(<<>>)
    BY <1>6 DEF Prefixes, IsSeq, Range
  <2>2. 1..Len(f[0]) = {}
    BY <2>1
  <2> QED
    BY Zenon, <2>1, <2>2
<1>8. ASSUME NEW k \in Nat, k \in T PROVE k + 1 \in T
  <2>0. k + 1 \in Nat
    OBVIOUS
  <2> HIDE DEF Good
  <2> SUFFICES ASSUME k + 1 <= n PROVE Good(k + 1)
    BY Zenon, <2>0
  <2>1. /\ k \in 0..(n - 1) /\ k + 1 \in 1..n /\ k <= n /\ k + 1 \in 1..(k + 1)
        /\ \A i \in 1..k : i \in 1..(k + 1) /\ i \in 1..n /\ i # k + 1
    BY <1>2
  <2>2. Good(k)
    BY Zenon, <1>8, <2>1
  <2>3. f[k + 1] = f[k] \o ss[k + 1]
    BY Zenon, <1>6, <2>1 DEF Prefixes
  <2>4. \A x : From(k, x) => From(k + 1, x)
    BY Zenon, <2>1
  <2>5. CASE ss[k + 1] = <<>>
    <3>1. f[k + 1] = f[k]
      BY Zenon, <2>2, <2>3, <2>5, JoinEmpty DEF Good
    <3> HIDE DEF From
    <3> QED
      BY Zenon, <2>2, <2>4, <3>1 DEF Good
  <2>6. CASE ss[k + 1] = <<c.services[k + 1]>> /\ ~c.services[k + 1].generated
    <3> DEFINE a == f[k]
               x == c.services[k + 1]
               q == f[k + 1]
    <3>0. q = a \o <<x>>
      BY Zenon, <2>3, <2>6
    <3>1. IsSeq(a)
      BY Zenon, <2>2 DEF Good
    <3> DEFINE b == <<x>>
    <3>2. IsSeq(b) /\ Len(b) = 1 /\ b[1] = x
      BY DEF IsSeq, Range
    <3> HIDE DEF b
    <3>3. /\ IsSeq(a \o b) /\ Len(a \o b) = Len(a) + Len(b) /\ Len(a) \in Nat
          /\ \A i \in 1..Len(a) : (a \o b)[i] = a[i]
          /\ \A i \in 1..Len(b) : (a \o b)[Len(a) + i] = b[i]
      <4>1. IsSeq(b)
        BY Zenon, <3>2
      <4> HIDE DEF a
      <4> QED
        BY <3>1, <4>1, Joined
    <3>q. q = a \o b
      BY Zenon, <3>0 DEF b
    <3>4. /\ IsSeq(q) /\ Len(q) = Len(a) + 1 /\ q[Len(a) + 1] = x
          /\ \A i \in 1..Len(a) : q[i] = a[i]
          /\ \A i \in 1..Len(q) : i \in 1..Len(a) \/ i = Len(a) + 1
      <4> HIDE DEF a, x, q
      <4> QED
        BY <3>2, <3>3, <3>q
    <3>5. \A i \in 1..Len(a) : From(k, a[i])
      BY Zenon, <2>2 DEF Good
    <3>6. From(k + 1, x)
      BY Zenon, <2>1, <2>6
    <3>7. \A i \in 1..Len(a) : a[i].name # x.name
      <4> SUFFICES ASSUME NEW i \in 1..Len(a), a[i].name = x.name PROVE FALSE
        BY Zenon
      <4>1. PICK j \in 1..k : c.services[j] = a[i] /\ ~c.services[j].generated
        BY Zenon, <3>5
      <4>2. j \in DOMAIN c.services /\ k + 1 \in DOMAIN c.services /\ j # k + 1
        BY Zenon, <1>2, <2>1
      <4> QED
        BY Zenon, <1>1, <2>6, <4>1, <4>2
    <3>8. \A i, j \in 1..Len(a) : a[i].name = a[j].name => i = j
      BY Zenon, <2>2 DEF Good
    <3>9. Good(k + 1) = (/\ IsSeq(q) /\ \A i \in 1..Len(q) : From(k + 1, q[i])
                         /\ \A i, j \in 1..Len(q) : q[i].name = q[j].name => i = j)
      BY Zenon DEF Good
    <3> HIDE DEF From, a, x, q
    <3>10. \A i \in 1..Len(q) : From(k + 1, q[i])
      BY Zenon, <2>4, <3>4, <3>5, <3>6
    <3>11. ASSUME NEW i \in 1..Len(q), NEW j \in 1..Len(q), q[i].name = q[j].name PROVE i = j
      <4>1. CASE i \in 1..Len(a) /\ j \in 1..Len(a)
        BY Zenon, <3>4, <3>8, <3>11, <4>1
      <4>2. CASE i = Len(a) + 1 /\ j \in 1..Len(a)
        BY Zenon, <3>4, <3>7, <3>11, <4>2
      <4>3. CASE i \in 1..Len(a) /\ j = Len(a) + 1
        BY Zenon, <3>4, <3>7, <3>11, <4>3
      <4> QED
        BY Zenon, <3>4, <4>1, <4>2, <4>3
    <3> QED
      BY Zenon, <3>4, <3>9, <3>10, <3>11
  <2> QED
    BY Zenon, <1>4, <2>1, <2>5, <2>6
<1>9. Nat \subseteq T
  <2> HIDE DEF T
  <2> QED
    BY Zenon, <1>7, <1>8, AllNaturals
<1>10. n <= n /\ f[n] = Own(c)
  <2>1. n <= n
    BY <1>2
  <2> QED
    BY Zenon, <1>3, <1>6, <2>1 DEF Prefixes
<1>11. Good(n)
  BY Zenon, <1>2, <1>9, <1>10
<1>12. /\ IsSeq(Own(c)) /\ \A i \in 1..Len(Own(c)) : Own(c)[i] \in Range(c.services)
       /\ \A i, j \in 1..Len(Own(c)) : Own(c)[i].name = Own(c)[j].name => i = j
  BY Zenon, <1>2, <1>10, <1>11
<1>13. \A s \in Range(Own(c)) : s \in Range(c.services)
  <2>1. IsSeq(Own(c))
    BY Zenon, <1>12
  <2>2. Range(Own(c)) = {Own(c)[i] : i \in 1..Len(Own(c))}
    BY Zenon, <2>1, SeqFacts
  <2> QED
    BY Zenon, <1>12, <2>2
<1>14. \A s \in Range(Own(c)) : IsSeq(s.methods)
  BY Zenon, <1>1, <1>13
<1> QED
  BY Zenon, <1>12, <1>14

(* The wire tokens that a generator prints for a service, and for a        *)
(* schema.                                                                 *)
WireOf(l, s) ==
  CASE l = "cpp" -> (Entries(s) \cup Cases(s)) \cup Stubs(s)
    [] l = "go" -> GoCases(s) \cup Stubs(s)
    [] l = "python" -> Stubs(s)
AllWire(l, c) == UNION {WireOf(l, s) : s \in Range(Own(c))}

(* The services smfc prints, by position.                                  *)
LEMMA OwnLength ==
  ASSUME NEW c \in Schemas
  PROVE  Len(Own(c)) \in Nat /\ Range(Own(c)) = {Own(c)[i] : i \in 1..Len(Own(c))}
<1>1. IsSeq(Own(c))
  BY Zenon, OwnServices
<1> QED
  BY Zenon, <1>1, SeqFacts

(* A text for each service, none of which has wire tokens.                 *)
LEMMA OwnPlain ==
  ASSUME NEW c \in Schemas, NEW ss, ss = [i \in 1..Len(Own(c)) |-> ss[i]],
         \A i \in 1..Len(Own(c)) : Carries(ss[i], {})
  PROVE  Carries(Concat(ss), {})
  BY Zenon, OwnLength, CarriesNone

(* The methods of each of them are a sequence.                             *)
LEMMA OwnMethods ==
  ASSUME NEW c \in Schemas, NEW i \in 1..Len(Own(c))
  PROVE  IsSeq(Own(c)[i].methods) /\ Own(c)[i] \in Range(Own(c))
<1>1. IsSeq(Own(c)) /\ \A s \in Range(Own(c)) : IsSeq(s.methods)
  BY Zenon, OwnServices
<1>2. Range(Own(c)) = {Own(c)[k] : k \in 1..Len(Own(c))}
  BY Zenon, <1>1, SeqFacts
<1> QED
  BY Zenon, <1>1, <1>2

(* The namespaces of a C++ header say nothing of the wire.                 *)
LEMMA PackagePlain ==
  ASSUME NEW c \in Schemas
  PROVE  Carries(prologue_namespace(c), {}) /\ Carries(epilogue_namespace(c), {})
<1> DEFINE n == Len(c.package)
           a == [i \in 1..n |-> <<Open("{")>>]
           b == [i \in 1..n |-> <<Close("{")>>]
<1>1. prologue_namespace(c) = Concat(a) /\ epilogue_namespace(c) = Concat(b)
  BY Zenon DEF prologue_namespace, epilogue_namespace, Each
<1>2. IsSeq(c.package)
  BY Zenon, SchemasAssumption DEF IsSeq
<1>3. n \in Nat
  BY Zenon, <1>2, SeqFacts
<1>4. a = [i \in 1..n |-> a[i]] /\ b = [i \in 1..n |-> b[i]]
  BY Zenon
<1>5. \A i \in 1..n : Carries(a[i], {}) /\ Carries(b[i], {})
  BY Zenon, TokenKinds, Plain1
<1> HIDE DEF n, a, b
<1>6. Carries(Concat(a), {}) /\ Carries(Concat(b), {})
  BY Zenon, <1>3, <1>4, <1>5, CarriesNone
<1> QED
  BY Zenon, <1>1, <1>6

(* Nor do its forward declarations and stream operators.                   *)
LEMMA DeclarationsPlain ==
  ASSUME NEW c \in Schemas
  PROVE  Carries(forward_decl(c), {}) /\ Carries(forward_decl_external(c), {})
<1> DEFINE n == Len(Own(c))
           a == [i \in 1..n |-> <<Decl(<<Own(c)[i].name>>), Decl(<<CppClient(Own(c)[i])>>)>>]
           b == [i \in 1..n |-> print_std_ostream_services(Own(c)[i])]
           d == [i \in 1..n |-> Concat(b)]
<1>1. forward_decl(c) = Concat(a) /\ forward_decl_external(c) = Concat(d)
  BY Zenon DEF forward_decl, forward_decl_external, Each
<1>2. a = [i \in 1..n |-> a[i]] /\ b = [i \in 1..n |-> b[i]]
  BY Zenon
<1>3. \A i \in 1..n : Carries(a[i], {})
  BY Zenon, TokenKinds, Plain2
<1>4. \A i \in 1..n : Carries(b[i], {})
  BY Zenon, TokenKinds, Plain10 DEF print_std_ostream_services
<1> HIDE DEF a, b
<1>5. Carries(Concat(a), {}) /\ Carries(Concat(b), {})
  BY Zenon, <1>2, <1>3, <1>4, OwnPlain
<1>6. d = [i \in 1..n |-> d[i]] /\ \A i \in 1..n : Carries(d[i], {})
  BY Zenon, <1>5
<1> HIDE DEF d
<1>7. Carries(Concat(d), {})
  BY Zenon, <1>6, OwnPlain
<1> QED
  BY Zenon, <1>1, <1>5, <1>7

(* What a C++ header carries; each service has its own table in it.        *)
LEMMA CppWire ==
  ASSUME NEW c \in Schemas
  PROVE  /\ Carries(CppHeader(c), AllWire("cpp", c))
         /\ \A s \in Range(Own(c)) : Lists(CppHeader(c), s.name, EntryList(s))
<1> DEFINE own == Own(c)
           n == Len(own)
           ss == [i \in 1..n |-> print_header_service(own[i]) \o print_header_client(own[i])]
           p == prologue_namespace(c)
           e == epilogue_namespace(c)
           f == forward_decl(c)
           g == forward_decl_external(c)
           h == generate_header_services(c)
<1>1. CppHeader(c) = (((((((cpp_prologue \o p) \o f) \o e) \o g) \o p) \o h) \o e) \o cpp_epilogue
  BY Zenon DEF CppHeader
<1>2. ASSUME NEW i \in 1..n
      PROVE  Carries(ss[i], WireOf("cpp", own[i])) /\ Lists(ss[i], own[i].name, EntryList(own[i]))
  <2> DEFINE s == own[i]
  <2>1. IsSeq(s.methods)
    BY Zenon, OwnMethods
  <2>2. ss[i] = print_header_service(s) \o print_header_client(s)
    BY Zenon
  <2> HIDE DEF own, ss, s
  <2>3. WireOf("cpp", s) = (Entries(s) \cup Cases(s)) \cup Stubs(s)
    BY Zenon DEF WireOf
  <2>4. /\ Carries(print_header_service(s), Entries(s) \cup Cases(s))
        /\ Carries(print_header_client(s), Stubs(s))
    BY Zenon, <2>1, ServiceWire, ClientWire
  <2>5. Carries(print_header_service(s) \o print_header_client(s),
                (Entries(s) \cup Cases(s)) \cup Stubs(s))
    BY Zenon, <2>4, CarriesJoin
  <2>6. Carries(ss[i], WireOf("cpp", s))
    BY Zenon, <2>2, <2>3, <2>5
  <2>7. Lists(print_header_service(s), s.name, EntryList(s)) /\ IsSeq(EntryList(s))
    BY Zenon, <2>1, ServiceWire, EntryListSeq
  <2>8. \A t \in Stubs(s) : ~IsEntry(t, s.name)
    BY Zenon, WireKinds
  <2>9. Lists(print_header_service(s) \o print_header_client(s), s.name, EntryList(s))
    BY Zenon, <2>4, <2>7, <2>8, ListsMore
  <2> QED
    BY Zenon, <2>2, <2>6, <2>9 DEF s
<1>3. h = Concat(ss) /\ ss = [i \in 1..n |-> ss[i]]
  BY Zenon DEF generate_header_services, Each
<1> HIDE DEF ss
<1>4. /\ n \in Nat
      /\ \A i \in 1..n : IsSeq(ss[i])
      /\ \A x : x \in AllWire("cpp", c) <=> \E i \in 1..n : x \in Wire(ss[i])
  <2>1. \A i \in 1..n : IsSeq(ss[i]) /\ Wire(ss[i]) = WireOf("cpp", own[i])
    BY Zenon, <1>2 DEF Carries
  <2>2. n \in Nat /\ Range(own) = {own[i] : i \in 1..n}
    BY Zenon, OwnLength
  <2>3. AllWire("cpp", c) = UNION {WireOf("cpp", s) : s \in Range(own)}
    BY Zenon DEF AllWire
  <2> HIDE DEF own, n
  <2> QED
    BY ZenonT(60), <2>1, <2>2, <2>3
<1> HIDE DEF n
<1>5. Carries(Concat(ss), AllWire("cpp", c))
  BY Zenon, <1>3, <1>4, CarriesAll
<1>6. Carries(h, AllWire("cpp", c))
  BY Zenon, <1>3, <1>5
<1>7. Carries(p, {}) /\ Carries(e, {}) /\ Carries(f, {}) /\ Carries(g, {})
  BY Zenon, PackagePlain, DeclarationsPlain
<1>8. Carries(cpp_prologue, {}) /\ Carries(cpp_epilogue, {})
  BY Zenon, TokenKinds, Plain1 DEF cpp_prologue, cpp_epilogue
<1> HIDE DEF p, e, f, g, h
<1> DEFINE a == ((((cpp_prologue \o p) \o f) \o e) \o g) \o p
<1>9. Carries(((cpp_prologue \o p) \o f) \o e, {})
  BY Zenon, <1>7, <1>8, CarriesMore
<1>10. Carries(a, {})
  BY ZenonT(60), <1>7, <1>9, CarriesMore
<1>11. CppHeader(c) = ((a \o h) \o e) \o cpp_epilogue
  BY Zenon, <1>1
<1> HIDE DEF a
<1>12. Carries(a \o h, AllWire("cpp", c))
  BY Zenon, <1>6, <1>10, CarriesMore
<1>13. Carries((a \o h) \o e, AllWire("cpp", c))
  BY Zenon, <1>7, <1>12, CarriesMore
<1>14. Carries(((a \o h) \o e) \o cpp_epilogue, AllWire("cpp", c))
  BY Zenon, <1>8, <1>13, CarriesMore
<1>15. ASSUME NEW s \in Range(own) PROVE Lists(CppHeader(c), s.name, EntryList(s))
  <2> DEFINE x == s.name
             l == EntryList(s)
             tt == [i \in 1..n |-> Handles(ss[i], x)]
  <2>1. PICK j \in 1..n : s = own[j]
    BY Zenon, OwnLength DEF n
  <2>2. IsSeq(l)
    BY Zenon, OwnServices, EntryListSeq
  <2>3. TextsOf(ss, n) /\ n \in Nat
    BY Zenon, <1>3, <1>4 DEF TextsOf
  <2>4. TextsOf(tt, n) /\ Lists(Concat(ss), x, Concat(tt))
    BY Zenon, <2>3, ListsAll
  <2>5. tt[j] = l
    BY Zenon, <1>2, <2>1 DEF Lists
  <2>6. ASSUME NEW i \in 1..n, i # j PROVE tt[i] = <<>>
    <3>1. own[i].name # x
      BY Zenon, <2>1, <2>6, OwnServices DEF n
    <3>2. IsSeq(ss[i]) /\ Wire(ss[i]) = WireOf("cpp", own[i])
      BY Zenon, <1>2 DEF Carries
    <3>3. WireOf("cpp", own[i]) = (Entries(own[i]) \cup Cases(own[i])) \cup Stubs(own[i])
      BY Zenon DEF WireOf
    <3>4. \A t \in Wire(ss[i]) : ~IsEntry(t, x)
      BY Zenon, <3>1, <3>2, <3>3, WireKinds
    <3>5. Handles(ss[i], x) = <<>>
      BY Zenon, <3>2, <3>4, HandlesNone
    <3> QED
      BY Zenon, <3>5
  <2> HIDE DEF tt, x, l
  <2>7. Concat(tt) = tt[j]
    BY Zenon, <2>3, <2>4, <2>6, ConcatOnly
  <2>8. Lists(h, x, l)
    BY Zenon, <1>3, <2>4, <2>5, <2>7
  <2>9. Lists(a \o h, x, l)
    BY Zenon, <1>10, <2>2, <2>8, ListsPlain
  <2>10. Lists((a \o h) \o e, x, l)
    BY Zenon, <1>7, <2>2, <2>9, ListsPlain
  <2>11. Lists(((a \o h) \o e) \o cpp_epilogue, x, l)
    BY Zenon, <1>8, <2>2, <2>10, ListsPlain
  <2> QED
    BY Zenon, <1>11, <2>11 DEF x, l
<1> QED
  BY Zenon, <1>11, <1>14, <1>15

(* What a Go file carries.                                                 *)
LEMMA GoWire ==
  ASSUME NEW c \in Schemas
  PROVE  Carries(GoFile(c), AllWire("go", c))
<1> DEFINE own == Own(c)
           n == Len(own)
           ss == [i \in 1..n |-> print_server(own[i])]
           cc == [i \in 1..n |-> go_print_client(own[i])]
           X == UNION {GoCases(s) : s \in Range(own)}
           Y == UNION {Stubs(s) : s \in Range(own)}
<1>1. GoFile(c) = (go_prologue_includes \o Concat(ss)) \o Concat(cc)
  BY Zenon DEF GoFile, Each
<1>2. ss = [i \in 1..n |-> ss[i]] /\ cc = [i \in 1..n |-> cc[i]]
  BY Zenon
<1>3. ASSUME NEW i \in 1..n PROVE Carries(ss[i], GoCases(own[i])) /\ Carries(cc[i], Stubs(own[i]))
  <2> DEFINE s == own[i]
  <2>1. IsSeq(s.methods)
    BY Zenon, OwnMethods
  <2>2. ss[i] = print_server(s) /\ cc[i] = go_print_client(s)
    BY Zenon
  <2>3. Carries(print_server(s), GoCases(s)) /\ Carries(go_print_client(s), Stubs(s))
    BY Zenon, <2>1, ServerWire, GoClientWire
  <2> HIDE DEF ss, cc
  <2> QED
    BY Zenon, <2>2, <2>3
<1>4. X \cup Y = AllWire("go", c)
  <2>1. \A s \in Range(own) : WireOf("go", s) = GoCases(s) \cup Stubs(s)
    BY Zenon DEF WireOf
  <2> QED
    BY ZenonT(60), <2>1 DEF AllWire
<1>5. Carries(go_prologue_includes, {})
  BY Zenon, TokenKinds, Plain4 DEF go_prologue_includes
<1> HIDE DEF ss, cc
<1>6. /\ n \in Nat
      /\ \A i \in 1..n : IsSeq(ss[i])
      /\ \A i \in 1..n : IsSeq(cc[i])
      /\ \A x : x \in X <=> \E i \in 1..n : x \in Wire(ss[i])
      /\ \A x : x \in Y <=> \E i \in 1..n : x \in Wire(cc[i])
  <2>1. \A i \in 1..n : /\ IsSeq(ss[i]) /\ Wire(ss[i]) = GoCases(own[i])
                        /\ IsSeq(cc[i]) /\ Wire(cc[i]) = Stubs(own[i])
    BY Zenon, <1>3 DEF Carries
  <2>2. n \in Nat /\ Range(own) = {own[i] : i \in 1..n}
    BY Zenon, OwnLength
  <2> HIDE DEF own, n
  <2> QED
    BY ZenonT(60), <2>1, <2>2
<1> HIDE DEF n, X, Y
<1>7. Carries(Concat(ss), X) /\ Carries(Concat(cc), Y)
  BY Zenon, <1>2, <1>6, CarriesAll
<1>8. Carries(go_prologue_includes \o Concat(ss), X)
  BY Zenon, <1>5, <1>7, CarriesMore
<1>9. Carries((go_prologue_includes \o Concat(ss)) \o Concat(cc), X \cup Y)
  BY Zenon, <1>7, <1>8, CarriesJoin
<1> QED
  BY Zenon, <1>1, <1>4, <1>9

(* The imports of a Python file say nothing of the wire.                   *)
LEMMA IncludesPlain ==
  ASSUME NEW c \in Schemas
  PROVE  Carries(python_includes(c), {})
<1> DEFINE own == Own(c)
           n == Len(own)
           ms == [i \in 1..n |-> own[i].methods]
           all == Concat(ms)
           k == Len(all)
           imports == [i \in 1..k |-> PythonModule(all[i].out)]
           ss == [i \in 1..k |-> IF \E j \in 1..(i - 1) : imports[j] = imports[i] THEN <<>>
                                 ELSE <<Level(0), Import(imports[i])>>]
<1>1. python_includes(c) = Concat(ss)
  BY Zenon DEF python_includes, Each
<1>2. n \in Nat
  BY Zenon, OwnLength
<1>3. TextsOf(ms, n)
  BY Zenon, OwnMethods DEF TextsOf
<1> HIDE DEF ms, n
<1>4. IsSeq(all)
  BY Zenon, <1>2, <1>3, ConcatTokens
<1>5. k \in Nat
  BY Zenon, <1>4, SeqFacts
<1>6. Carries(<<>>, {})
  BY DEF Carries, IsSeq, Wire, Range
<1> HIDE DEF imports
<1>7. ss = [i \in 1..k |-> ss[i]] /\ \A i \in 1..k : Carries(ss[i], {})
  BY Zenon, <1>6, TokenKinds, Plain2
<1> HIDE DEF ss, k
<1>8. Carries(Concat(ss), {})
  BY Zenon, <1>5, <1>7, CarriesNone
<1> QED
  BY Zenon, <1>1, <1>8

(* What a Python file carries.                                             *)
LEMMA PythonWire ==
  ASSUME NEW c \in Schemas
  PROVE  Carries(PythonFile(c), AllWire("python", c))
<1> DEFINE own == Own(c)
           n == Len(own)
           ss == [i \in 1..n |-> python_print_client(own[i])]
           X == UNION {Stubs(s) : s \in Range(own)}
<1>1. PythonFile(c) = python_includes(c) \o Concat(ss)
  BY Zenon DEF PythonFile, Each
<1>2. ss = [i \in 1..n |-> ss[i]]
  BY Zenon
<1>3. ASSUME NEW i \in 1..n PROVE Carries(ss[i], Stubs(own[i]))
  <2> DEFINE s == own[i]
  <2>1. IsSeq(s.methods)
    BY Zenon, OwnMethods
  <2>2. ss[i] = python_print_client(s)
    BY Zenon
  <2>3. Carries(python_print_client(s), Stubs(s))
    BY Zenon, <2>1, PythonClientWire
  <2> HIDE DEF ss
  <2> QED
    BY Zenon, <2>2, <2>3
<1>4. X = AllWire("python", c)
  <2>1. \A s \in Range(own) : WireOf("python", s) = Stubs(s)
    BY Zenon DEF WireOf
  <2> QED
    BY Zenon, <2>1 DEF AllWire
<1> HIDE DEF ss
<1>5. /\ n \in Nat
      /\ \A i \in 1..n : IsSeq(ss[i])
      /\ \A x : x \in X <=> \E i \in 1..n : x \in Wire(ss[i])
  <2>1. \A i \in 1..n : IsSeq(ss[i]) /\ Wire(ss[i]) = Stubs(own[i])
    BY Zenon, <1>3 DEF Carries
  <2>2. n \in Nat /\ Range(own) = {own[i] : i \in 1..n}
    BY Zenon, OwnLength
  <2> HIDE DEF own, n
  <2> QED
    BY Zenon, <2>1, <2>2
<1> HIDE DEF n, X
<1>6. Carries(Concat(ss), AllWire("python", c))
  BY Zenon, <1>2, <1>4, <1>5, CarriesAll
<1>7. Carries(python_includes(c) \o Concat(ss), AllWire("python", c))
  BY Zenon, <1>6, IncludesPlain, CarriesMore
<1> QED
  BY Zenon, <1>1, <1>7

(* What a generated file carries.                                          *)
LEMMA FileWire ==
  ASSUME NEW l \in Languages, NEW c \in Schemas
  PROVE  Carries(Generate(l, c), AllWire(l, c))
  BY Zenon, CppWire, GoWire, PythonWire DEF Languages, Generate

-----------------------------------------------------------------------------
(* From a stub to its handler.                                             *)

(* The id on the wire of method m of the service named x.                  *)
IdOf(x, m) == Xor(Crc(<<x>>), MethodId(m))

(* The id of method m of service x reaches its handler, and no other.      *)
Answers(file, x, m) == Reached(file, x, IdOf(x, m)) = {m}

(* Ids of one service differ where the ids of the methods do.              *)
LEMMA XorCancel ==
  ASSUME NEW a, NEW b, NEW c, Xor(a, b) = Xor(a, c)
  PROVE  b = c
  BY Zenon DEF Xor

(* The tokens of one kind in a file.                                       *)
LEMMA FileTokens ==
  ASSUME NEW l \in Languages, NEW c \in Schemas, NEW t, IsWire(t)
  PROVE  t \in Range(Generate(l, c)) <=> \E s \in Range(Own(c)) : t \in WireOf(l, s)
<1>1. Wire(Generate(l, c)) = AllWire(l, c)
  BY Zenon, FileWire DEF Carries
<1>2. t \in Range(Generate(l, c)) <=> t \in AllWire(l, c)
  BY Zenon, <1>1 DEF Wire
<1> QED
  BY Zenon, <1>2 DEF AllWire

(* The kind of a wire token tells where it comes from.                     *)
LEMMA KindsOfWire ==
  ASSUME NEW s, NEW t
  PROVE  /\ t[1] = "handle" => t \notin GoCases(s) /\ t \notin Stubs(s) /\ t \notin Cases(s)
         /\ t[1] = "case" => t \notin GoCases(s) /\ t \notin Stubs(s) /\ t \notin Entries(s)
         /\ t[1] = "gocase" => t \notin Cases(s) /\ t \notin Stubs(s) /\ t \notin Entries(s)
         /\ t[1] = "stub" => t \notin Cases(s) /\ t \notin GoCases(s) /\ t \notin Entries(s)
<1>1. /\ "handle" # "case" /\ "handle" # "gocase" /\ "handle" # "stub"
      /\ "case" # "gocase" /\ "case" # "stub" /\ "gocase" # "stub"
  OBVIOUS
<1>2. ASSUME t \in Entries(s) PROVE t[1] = "handle"
  <2>1. PICK i \in 1..Len(s.methods) : t = Handle(s, s.methods[i])
    BY Zenon, <1>2 DEF Entries
  <2> QED
    BY <2>1 DEF Handle
<1>3. ASSUME t \in Cases(s) PROVE t[1] = "case"
  <2>1. PICK i \in 1..Len(s.methods) : t = Case(RequestIdOf(s, s.methods[i]), s, i - 1)
    BY Zenon, <1>3 DEF Cases
  <2> QED
    BY <2>1 DEF Case
<1>4. ASSUME t \in GoCases(s) PROVE t[1] = "gocase"
  <2>1. PICK i \in 1..Len(s.methods) : t = GoCase(RequestIdOf(s, s.methods[i]), s, s.methods[i])
    BY Zenon, <1>4 DEF GoCases
  <2> QED
    BY <2>1 DEF GoCase
<1>5. ASSUME t \in Stubs(s) PROVE t[1] = "stub"
  <2>1. PICK i \in 1..Len(s.methods) : t = Stub(RequestIdOf(s, s.methods[i]), s, s.methods[i])
    BY Zenon, <1>5 DEF Stubs
  <2> QED
    BY <2>1 DEF Stub
<1> QED
  BY Zenon, <1>1, <1>2, <1>3, <1>4, <1>5

(* The methods of a service, and the service of a name.                    *)
LEMMA OwnMethodSet ==
  ASSUME NEW c \in Schemas, NEW s \in Range(Own(c))
  PROVE  /\ Len(s.methods) \in Nat /\ Range(s.methods) = {s.methods[i] : i \in 1..Len(s.methods)}
         /\ IsSeq(s.methods)
         /\ \A r \in Range(Own(c)) : r.name = s.name => r = s
<1>1. IsSeq(s.methods)
  BY Zenon, OwnServices
<1>2. Len(s.methods) \in Nat /\ Range(s.methods) = {s.methods[i] : i \in 1..Len(s.methods)}
  BY Zenon, <1>1, SeqFacts
<1>3. \A i, j \in 1..Len(Own(c)) : Own(c)[i].name = Own(c)[j].name => i = j
  BY Zenon, OwnServices
<1>4. ASSUME NEW r \in Range(Own(c)), r.name = s.name PROVE r = s
  <2>1. Range(Own(c)) = {Own(c)[i] : i \in 1..Len(Own(c))}
    BY Zenon, OwnLength
  <2>2. PICK i \in 1..Len(Own(c)) : r = Own(c)[i]
    BY Zenon, <2>1
  <2>3. PICK j \in 1..Len(Own(c)) : s = Own(c)[j]
    BY Zenon, <2>1
  <2> QED
    BY Zenon, <1>3, <1>4, <2>2, <2>3
<1> QED
  BY Zenon, <1>1, <1>2, <1>4

(* The id a stub sends is that of its service and method.                  *)
LEMMA StubIds ==
  ASSUME NEW l \in Languages, NEW c \in Schemas, NEW t \in Range(Generate(l, c)), t[1] = "stub"
  PROVE  t[2] = IdOf(t[3], t[4])
<1>0. IsWire(t)
  BY Zenon DEF IsWire
<1>1. PICK s \in Range(Own(c)) : t \in WireOf(l, s)
  BY Zenon, <1>0, FileTokens
<1>2. t \in Stubs(s)
  BY Zenon, <1>1, KindsOfWire DEF WireOf, Languages
<1>3. PICK i \in 1..Len(s.methods) : t = Stub(RequestIdOf(s, s.methods[i]), s, s.methods[i])
  BY Zenon, <1>2 DEF Stubs
<1>4. t[2] = RequestIdOf(s, s.methods[i]) /\ t[3] = s.name /\ t[4] = s.methods[i]
  BY <1>3 DEF Stub
<1> QED
  BY Zenon, <1>4 DEF IdOf, RequestIdOf, ServiceId

(* The id of a method that a C++ server serves picks the case whose        *)
(* position in the table is that of the handle of the method.              *)
LEMMA CppReach ==
  ASSUME DistinctIds, NEW d \in Schemas, NEW x, NEW m, m \in Served(Generate("cpp", d), x)
  PROVE  Answers(Generate("cpp", d), x, m)
<1> DEFINE file == Generate("cpp", d)
           id == IdOf(x, m)
           handles == Handles(file, x)
           cases == {t \in Range(file) : t[1] = "case" /\ t[2] = id /\ t[3] = x}
<1>0. "cpp" \in Languages
  BY Zenon DEF Languages
<1>w. \A s : WireOf("cpp", s) = (Entries(s) \cup Cases(s)) \cup Stubs(s)
  BY Zenon DEF WireOf
<1>1. ASSUME NEW t \in Range(file) PROVE t[1] # "gocase"
  <2> SUFFICES ASSUME t[1] = "gocase" PROVE FALSE
    BY Zenon
  <2>0. IsWire(t)
    BY Zenon DEF IsWire
  <2>1. PICK s \in Range(Own(d)) : t \in WireOf("cpp", s)
    BY Zenon, <1>0, <2>0, FileTokens
  <2> QED
    BY Zenon, <1>w, <2>1, KindsOfWire
<1>2. PICK u \in Range(file) : u[1] = "handle" /\ u[2] = x /\ u[3] = m
  BY Zenon, <1>1 DEF Served, IsEntry
<1>3. PICK s \in Range(Own(d)) : u \in WireOf("cpp", s)
  <2>1. IsWire(u)
    BY Zenon, <1>2 DEF IsWire
  <2> QED
    BY Zenon, <1>0, <2>1, FileTokens
<1>4. u \in Entries(s)
  BY Zenon, <1>w, <1>2, <1>3, KindsOfWire
<1>5. PICK i \in 1..Len(s.methods) : u = Handle(s, s.methods[i])
  BY Zenon, <1>4 DEF Entries
<1>6. s.name = x /\ s.methods[i] = m
  BY <1>2, <1>5 DEF Handle
<1> DEFINE n == Len(s.methods)
<1>7. /\ n \in Nat /\ Range(s.methods) = {s.methods[j] : j \in 1..n} /\ IsSeq(s.methods)
      /\ \A r \in Range(Own(d)) : r.name = s.name => r = s
  BY Zenon, OwnMethodSet
<1>8. handles = EntryList(s)
  <2>1. file = CppHeader(d)
    BY Zenon DEF Generate
  <2>2. Lists(CppHeader(d), s.name, EntryList(s))
    BY Zenon, CppWire
  <2> QED
    BY Zenon, <1>6, <2>1, <2>2 DEF Lists
<1>9. Len(handles) = n /\ \A j \in 1..n : handles[j][3] = s.methods[j]
  <2>1. Len(EntryList(s)) = n
    BY <1>7 DEF EntryList
  <2>2. \A j \in 1..n : EntryList(s)[j] = Handle(s, s.methods[j])
    BY Zenon DEF EntryList
  <2>3. \A j : Handle(s, s.methods[j])[3] = s.methods[j]
    BY DEF Handle
  <2> QED
    BY Zenon, <1>8, <2>1, <2>2, <2>3
<1>10. ASSUME NEW t \in cases
       PROVE  \E j \in 1..n : t[4] = j - 1 /\ s.methods[j] = m
  <2>1. t \in Range(file) /\ t[1] = "case" /\ t[2] = id /\ t[3] = x
    BY Zenon
  <2>2. PICK r \in Range(Own(d)) : t \in WireOf("cpp", r)
    <3>1. IsWire(t) /\ t \in Range(file)
      BY Zenon, <2>1 DEF IsWire
    <3> QED
      BY Zenon, <1>0, <3>1, FileTokens
  <2>3. t \in Cases(r)
    BY Zenon, <1>w, <2>1, <2>2, KindsOfWire
  <2>4. PICK j \in 1..Len(r.methods) : t = Case(RequestIdOf(r, r.methods[j]), r, j - 1)
    BY Zenon, <2>3 DEF Cases
  <2>5. t[2] = RequestIdOf(r, r.methods[j]) /\ t[3] = r.name /\ t[4] = j - 1
    BY <2>4 DEF Case
  <2>6. r = s
    BY Zenon, <1>6, <1>7, <2>1, <2>5
  <2>7. Xor(Crc(<<x>>), MethodId(s.methods[j])) = Xor(Crc(<<x>>), MethodId(m))
    BY Zenon, <1>6, <2>1, <2>5, <2>6 DEF IdOf, RequestIdOf, ServiceId
  <2>8. MethodId(s.methods[j]) = MethodId(m)
    BY Zenon, <2>7, XorCancel
  <2>9. s.methods[j] \in Range(s.methods) /\ m \in Range(s.methods) /\ j \in 1..n
    BY Zenon, <1>6, <1>7, <2>6
  <2> QED
    BY ZenonT(60), <2>5, <2>8, <2>9 DEF DistinctIds
<1>11. \E t \in cases : t[4] = i - 1
  <2> DEFINE t == Case(RequestIdOf(s, s.methods[i]), s, i - 1)
  <2>1. t \in Cases(s)
    BY Zenon DEF Cases
  <2>2. t[1] = "case" /\ t[2] = RequestIdOf(s, s.methods[i]) /\ t[3] = s.name /\ t[4] = i - 1
    BY DEF Case
  <2> HIDE DEF t
  <2>3. t \in WireOf("cpp", s) /\ IsWire(t)
    BY Zenon, <1>w, <2>1, <2>2 DEF IsWire
  <2>4. t \in Range(file)
    BY Zenon, <1>0, <2>3, FileTokens
  <2>5. RequestIdOf(s, s.methods[i]) = id
    BY Zenon, <1>6 DEF IdOf, RequestIdOf, ServiceId
  <2> QED
    BY Zenon, <1>6, <2>2, <2>4, <2>5
<1>12. Reached(file, x, id) = UNION {EntryAt(file, x, t[4]) : t \in cases}
  <2>1. {t[4] : t \in {v \in Range(file) : v[1] = "gocase" /\ v[2] = id /\ v[3] = x}} = {}
    BY Zenon, <1>1
  <2> QED
    BY Zenon, <2>1 DEF Reached
<1>13. IsSeq(file) /\ \A j \in 1..n : j \in 1..Len(handles)
  <2>1. Carries(file, AllWire("cpp", d))
    BY Zenon, <1>0, FileWire
  <2> HIDE DEF file, handles, n
  <2> QED
    BY Zenon, <1>9, <2>1 DEF Carries
<1>14. ASSUME NEW t \in cases PROVE EntryAt(file, x, t[4]) = {m}
  <2>1. PICK j \in 1..n : t[4] = j - 1 /\ s.methods[j] = m
    BY Zenon, <1>10
  <2>2. EntryAt(file, x, j - 1) = {handles[j][3]}
    <3>1. IsSeq(file) /\ j \in 1..Len(Handles(file, x))
      BY Zenon, <1>13
    <3> HIDE DEF file, handles
    <3>2. EntryAt(file, x, j - 1) = {Handles(file, x)[j][3]}
      BY <3>1, HandlesPlaced
    <3> QED
      BY Zenon, <3>2 DEF handles
  <2> QED
    BY Zenon, <1>9, <2>1, <2>2
<1> HIDE DEF handles, cases, n
<1>15. UNION {EntryAt(file, x, t[4]) : t \in cases} = {m}
  BY Zenon, <1>11, <1>14
<1> QED
  BY Zenon, <1>12, <1>15 DEF Answers

(* The id of a method that a Go server serves picks the case of the        *)
(* method.                                                                 *)
LEMMA GoReach ==
  ASSUME DistinctIds, NEW d \in Schemas, NEW x, NEW m, m \in Served(Generate("go", d), x)
  PROVE  Answers(Generate("go", d), x, m)
<1> DEFINE file == Generate("go", d)
           id == IdOf(x, m)
           found == {t \in Range(file) : t[1] = "gocase" /\ t[2] = id /\ t[3] = x}
<1>0. "go" \in Languages
  BY Zenon DEF Languages
<1>w. \A s : WireOf("go", s) = GoCases(s) \cup Stubs(s)
  BY Zenon DEF WireOf
<1>1. ASSUME NEW t \in Range(file) PROVE t[1] # "handle" /\ t[1] # "case"
  <2> SUFFICES ASSUME t[1] \in {"handle", "case"} PROVE FALSE
    BY Zenon
  <2>0. IsWire(t)
    BY Zenon DEF IsWire
  <2>1. PICK s \in Range(Own(d)) : t \in WireOf("go", s)
    BY Zenon, <1>0, <2>0, FileTokens
  <2> QED
    BY Zenon, <1>w, <2>1, KindsOfWire
<1>2. PICK u \in Range(file) : u[1] = "gocase" /\ u[3] = x /\ u[4] = m
  BY Zenon, <1>1 DEF Served, IsEntry
<1>3. ASSUME NEW t \in Range(file), t[1] = "gocase", t[3] = x
      PROVE  \E s \in Range(Own(d)) :
               s.name = x /\ t[4] \in Range(s.methods) /\ t[2] = IdOf(x, t[4])
  <2>0. IsWire(t)
    BY Zenon, <1>3 DEF IsWire
  <2>1. PICK s \in Range(Own(d)) : t \in WireOf("go", s)
    BY Zenon, <1>0, <2>0, FileTokens
  <2>2. t \in GoCases(s)
    BY Zenon, <1>w, <1>3, <2>1, KindsOfWire
  <2>3. PICK i \in 1..Len(s.methods) : t = GoCase(RequestIdOf(s, s.methods[i]), s, s.methods[i])
    BY Zenon, <2>2 DEF GoCases
  <2>4. t[2] = RequestIdOf(s, s.methods[i]) /\ t[3] = s.name /\ t[4] = s.methods[i]
    BY <2>3 DEF GoCase
  <2>5. s.methods[i] \in Range(s.methods)
    <3>1. Range(s.methods) = {s.methods[j] : j \in 1..Len(s.methods)}
      BY Zenon, OwnMethodSet
    <3> QED
      BY Zenon, <3>1
  <2> QED
    BY Zenon, <1>3, <2>4, <2>5 DEF IdOf, RequestIdOf, ServiceId
<1>4. PICK s \in Range(Own(d)) : s.name = x /\ m \in Range(s.methods) /\ u[2] = IdOf(x, m)
  BY Zenon, <1>2, <1>3
<1>5. \A r \in Range(Own(d)) : r.name = s.name => r = s
  BY Zenon, OwnMethodSet
<1>6. ASSUME NEW t \in found PROVE t[4] = m
  <2>1. PICK r \in Range(Own(d)) : r.name = x /\ t[4] \in Range(r.methods) /\ t[2] = IdOf(x, t[4])
    BY Zenon, <1>3
  <2>2. t[4] \in Range(s.methods)
    BY Zenon, <1>4, <1>5, <2>1
  <2>3. Xor(Crc(<<x>>), MethodId(t[4])) = Xor(Crc(<<x>>), MethodId(m))
    BY Zenon, <2>1 DEF IdOf
  <2>4. MethodId(t[4]) = MethodId(m)
    BY Zenon, <2>3, XorCancel
  <2> QED
    BY Zenon, <1>4, <2>2, <2>4 DEF DistinctIds
<1>7. u \in found
  BY Zenon, <1>2, <1>4
<1>8. Reached(file, x, id) = {t[4] : t \in found}
  <2> DEFINE cases == {t \in Range(file) : t[1] = "case" /\ t[2] = id /\ t[3] = x}
  <2>1. cases = {}
    BY Zenon, <1>1
  <2> DEFINE A == UNION {EntryAt(file, x, t[4]) : t \in cases}
             B == {t[4] : t \in found}
  <2>2. Reached(file, x, id) = B \cup A
    BY Zenon DEF Reached
  <2> HIDE DEF cases
  <2>3. A = {}
    BY Zenon, <2>1
  <2> HIDE DEF A, B
  <2>4. Reached(file, x, id) = B
    BY Zenon, <2>2, <2>3
  <2> QED
    BY Zenon, <2>4 DEF B
<1> HIDE DEF found
<1>9. {t[4] : t \in found} = {m}
  BY Zenon, <1>2, <1>6, <1>7
<1> QED
  BY Zenon, <1>8, <1>9 DEF Answers

(* Python files have no servers.                                           *)
LEMMA PythonServes ==
  ASSUME NEW d \in Schemas, NEW x
  PROVE  Served(Generate("python", d), x) = {}
<1>0. "python" \in Languages
  BY Zenon DEF Languages
<1>1. ASSUME NEW t \in Range(Generate("python", d)), t[1] \in {"handle", "gocase"} PROVE FALSE
  <2>0. IsWire(t)
    BY Zenon, <1>1 DEF IsWire
  <2>1. PICK s \in Range(Own(d)) : t \in WireOf("python", s)
    BY Zenon, <1>0, <2>0, FileTokens
  <2> QED
    BY Zenon, <1>1, <2>1, KindsOfWire DEF WireOf
<1> QED
  BY Zenon, <1>1 DEF Served, IsEntry

(* A stub in any file reaches the handler of its own method in any file in *)
(* which that method is served, for every two schemas and every two        *)
(* generators (method_for_request_id and the handles of a C++ service,     *)
(* MethodHandle of a Go service).                                          *)
THEOREM StubsReachHandlers ==
  ASSUME DistinctIds, NEW l \in Languages, NEW k \in Languages, NEW c \in Schemas, NEW d \in Schemas
  PROVE  StubsReach(Generate(l, c), Generate(k, d))
<1> SUFFICES ASSUME NEW t \in Range(Generate(l, c)), t[1] = "stub",
                    t[4] \in Served(Generate(k, d), t[3])
             PROVE  Reached(Generate(k, d), t[3], t[2]) = {t[4]}
  BY Zenon DEF StubsReach
<1>1. t[2] = IdOf(t[3], t[4])
  BY Zenon, StubIds
<1>2. k \in {"cpp", "go", "python"}
  BY Zenon DEF Languages
<1>3. Answers(Generate(k, d), t[3], t[4])
  BY Zenon, <1>2, CppReach, GoReach, PythonServes
<1> QED
  BY Zenon, <1>1, <1>3 DEF Answers

-----------------------------------------------------------------------------
(* The files on disk.                                                      *)

(* A file is torn or holds a text.                                         *)
WholeTexts == \A p \in DOMAIN files : files[p] # Torn => files[p] \in Texts

(* Every step keeps it: only Save writes a text, the one printed for the   *)
(* language at hand and the schema parsed.                                 *)
LEMMA NextWhole == SmfcInv /\ WholeTexts /\ [Next]_vars => WholeTexts'
<1> SUFFICES ASSUME SmfcInv, WholeTexts, [Next]_vars PROVE WholeTexts'
  BY Zenon
<1>1. \/ UNCHANGED files
      \/ files' = [q \in DOMAIN files \ {Path} |-> files[q]]
      \/ Store(Torn)
      \/ Running /\ pc = "write" /\ Store(text)
  BY ZenonT(60) DEF Next, Step, vars, run, disk, Flags, Construct, Parse, PrintText,
     CreateDirectories, FilesystemThrows, RemoveOld, Save, SaveFails, Killed, Edit, Again, At
<1>2. CASE UNCHANGED files
  BY Zenon, <1>2 DEF WholeTexts
<1>3. CASE files' = [q \in DOMAIN files \ {Path} |-> files[q]]
  BY Zenon, <1>3 DEF WholeTexts
<1>4. ASSUME NEW c, Store(c), c = Torn \/ c \in Texts PROVE WholeTexts'
  <2>1. files' = [p \in DOMAIN files \cup {Path} |-> IF p = Path THEN c ELSE files[p]]
    BY Zenon, <1>4 DEF Store
  <2>2. ASSUME NEW p \in DOMAIN files', files'[p] # Torn PROVE files'[p] \in Texts
    BY Zenon, <1>4, <2>1, <2>2 DEF WholeTexts
  <2> QED
    BY Zenon, <2>2 DEF WholeTexts
<1>5. CASE Running /\ pc = "write" /\ Store(text)
  <2>1. Generating /\ text = <<Head(todo), loaded>>
    BY Zenon, <1>5 DEF SmfcInv, Generating
  <2>2. Head(todo) \in Languages /\ loaded \in Schemas
    BY Zenon, <2>1, SetOfTail DEF Generating
  <2>3. text \in Texts
    BY <2>1, <2>2 DEF Texts
  <2> QED
    BY Zenon, <1>4, <1>5, <2>3
<1> QED
  BY Zenon, <1>1, <1>2, <1>3, <1>4, <1>5

(* Whatever runs of smfc, of any versions of the schema, have left on      *)
(* disk: a stub in one file reaches the handler of its own method in every *)
(* file that serves it.                                                    *)
THEOREM WireIsCompatible ==
  ASSUME DistinctIds
  PROVE  Spec => []WireCompatible
<1>1. Init => WholeTexts
  BY DEF Init, WholeTexts
<1>2. WholeTexts => WireCompatible
  <2> SUFFICES ASSUME WholeTexts, NEW u \in Texts, NEW v \in Texts
               PROVE  <<u, v>> \in Compatible
    BY Zenon DEF WholeTexts, WireCompatible
  <2>1. u[1] \in Languages /\ u[2] \in Schemas /\ v[1] \in Languages /\ v[2] \in Schemas
    BY DEF Texts
  <2>2. StubsReach(Tokens(u), Tokens(v))
    BY Zenon, <2>1, StubsReachHandlers DEF Tokens
  <2> DEFINE c == <<u, v>>
  <2>3. c \in Texts \X Texts /\ c[1] = u /\ c[2] = v
    OBVIOUS
  <2> QED
    BY Zenon, <2>2, <2>3 DEF Compatible
<1> QED
  BY <1>1, <1>2, InitSmfc, NextSmfc, NextWhole, PTL DEF Spec

=============================================================================
