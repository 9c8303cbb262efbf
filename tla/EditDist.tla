------------------------------ MODULE EditDist ------------------------------
(***************************************************************************)
(* The edit distances of the error correction model                        *)
(* (src/src/error_correction/EditDistForStr.cc, EditDistForVecString.cc):  *)
(* between two words, letter by letter, and between two sentences, word by *)
(* word, where the substitution of a word costs the distance between the   *)
(* words.  The second argument may be a prefix: its last word is then      *)
(* incomplete, unless it ends in a blank.                                  *)
(*                                                                         *)
(* A word is a sequence of letters, a sentence a sequence of words.  The   *)
(* code is compiled without EDIT_DIST_FAST_ED_VECSTR, and its              *)
(* addBlankCharacters works on a copy: it changes nothing.                 *)
(***************************************************************************)
EXTENDS Integers, SequencesExt

CONSTANTS HitCost, InsCost, SubstCost, DelCost

Blank == " "

LastCharIsBlank(w) == w # <<>> /\ Last(w) = Blank
RemoveLastBlank(w) == IF LastCharIsBlank(w) THEN Front(w) ELSE w

\* A cell of a distance matrix from its neighbours: [cost, op].  Deletion and
\* insertion are chosen only when they cost less.  A deletion that costs
\* nothing leaves no trace.
Cell(diag, up, left, subst, substOp, del, ins) ==
  LET first  == [cost |-> diag + subst, op |-> substOp]
      second == IF up + del < first.cost
                  THEN [cost |-> up + del, op |-> IF del = 0 THEN "PREF_DEL" ELSE "DEL"]
                ELSE first
  IN IF left + ins < second.cost THEN [cost |-> left + ins, op |-> "INS"] ELSE second

\* Row 0: the insertions that make each prefix.
FirstRow(m, Ins(_)) ==
  FoldLeftDomain(LAMBDA row, j : Append(row, [cost |-> Last(row).cost + Ins(j), op |-> "INS"]),
                 <<[cost |-> 0, op |-> "NONE"]>>, [j \in 1 .. m |-> j])

\* The distance matrix of n by m elements, as a sequence of rows; row i and
\* column j are at i + 1 and j + 1.
DistMatrix(n, m, Subst(_, _), SubstOp(_, _), FirstDel(_), Del(_, _), Ins(_)) ==
  FoldLeftDomain(LAMBDA rows, i :
    LET prev == Last(rows) IN
    Append(rows,
      FoldLeftDomain(LAMBDA row, j :
          Append(row, Cell(prev[j].cost, prev[j + 1].cost, Last(row).cost,
                           Subst(i, j), SubstOp(i, j), Del(i, j), Ins(j))),
        <<[cost |-> prev[1].cost + FirstDel(i), op |-> "DEL"]>>, [j \in 1 .. m |-> j])),
    <<FirstRow(m, Ins)>>, [i \in 1 .. n |-> i])

Distance(dm) == Last(Last(dm)).cost

\* The operations of the path that ends in the last cell, first to last.
Operations(dm) ==
  LET Ops[i \in 0 .. Len(dm) - 1, j \in 0 .. Len(dm[1]) - 1] ==
        LET op == dm[i + 1][j + 1].op IN
        CASE op = "NONE"             -> <<>>
          [] op = "INS"              -> Append(Ops[i, j - 1], op)
          [] op = "DEL"              -> Append(Ops[i - 1, j], op)
          [] op = "PREF_DEL"         -> Ops[i - 1, j]
          [] op \in {"HIT", "SUBST"} -> Append(Ops[i - 1, j - 1], op)
  IN Ops[Len(dm) - 1, Len(dm[1]) - 1]

-----------------------------------------------------------------------------
(* Words.  What follows the part of x that y stands for may be free.       *)

CharDistMatrix(x, y, usePrefDel) ==
  DistMatrix(Len(x), Len(y),
    LAMBDA i, j : IF x[i] = y[j] THEN HitCost ELSE SubstCost,
    LAMBDA i, j : IF x[i] = y[j] THEN "HIT" ELSE "SUBST",
    LAMBDA i : DelCost,
    LAMBDA i, j : IF usePrefDel /\ j = Len(y) THEN 0 ELSE DelCost,
    LAMBDA j : InsCost)

SubstitutionCost(x, y) == Distance(CharDistMatrix(x, y, FALSE))
PrefSubstitutionCost(x, y) == Distance(CharDistMatrix(x, y, TRUE))

-----------------------------------------------------------------------------
(* Sentences.                                                              *)

InsertionCost(w) == InsCost * Len(w)
DeletionCost(w) == DelCost * Len(w)

LastWordIsComplete(y) == y = <<>> \/ LastCharIsBlank(Last(y))
WithoutLastBlank(y) == IF y = <<>> THEN y ELSE Front(y) \o <<RemoveLastBlank(Last(y))>>

\* The word y[j] is in the place of the word x.
WordSubst(x, y, j, complete) ==
  IF j = Len(y) /\ ~complete THEN PrefSubstitutionCost(x, y[j]) ELSE SubstitutionCost(x, y[j])
WordSubstOp(x, y, j, complete) ==
  IF x = y[j] \/ (~complete /\ IsPrefix(y[j], x)) THEN "HIT" ELSE "SUBST"

\* y is a prefix; nothing of x is deleted without a cost.
WordDistMatrix(x, y) ==
  LET v        == WithoutLastBlank(y)
      complete == LastWordIsComplete(y)
  IN DistMatrix(Len(x), Len(v),
       LAMBDA i, j : WordSubst(x[i], v, j, complete),
       LAMBDA i, j : WordSubstOp(x[i], v, j, complete),
       LAMBDA i : DeletionCost(x[i]),
       LAMBDA i, j : DeletionCost(x[i]),
       LAMBDA j : InsertionCost(v[j]))

\* The costs of the first row for a prefix that has grown by the words incrY;
\* a blank counts here.
ExtendFirstRow(row, incrY) ==
  FoldLeft(LAMBDA acc, w : Append(acc, Last(acc) + InsertionCost(w)), row, incrY)

\* The row of one word x, for a prefix that has grown by incrY: the row before
\* it has grown already.  Cells are added to the row and their operations to
\* ops.
ExtendRow(x, incrY, prevRow, row, ops) ==
  LET v        == WithoutLastBlank(incrY)
      complete == LastWordIsComplete(incrY)
      start    == Len(prevRow) - Len(incrY)
  IN FoldLeftDomain(LAMBDA acc, k :
       LET c == Cell(prevRow[start + k - 1], prevRow[start + k], Last(acc.scr),
                     WordSubst(x, v, k, complete), WordSubstOp(x, v, k, complete),
                     DeletionCost(x), InsertionCost(v[k]))
       IN [scr |-> Append(acc.scr, c.cost), op |-> Append(acc.op, c.op)],
     [scr |-> row, op |-> ops], v)

-----------------------------------------------------------------------------
(* Corrections (src/src/error_correction/_editDistBasedEcm.cc).            *)

\* The letters of the word that the operations correct to begin with pref.
CorrectWordGivenPrefOps(ops, word, pref) ==
  LET made == FoldLeft(LAMBDA acc, op :
                CASE op = "HIT"   -> [out |-> Append(acc.out, word[acc.i + 1]),
                                      i |-> acc.i + 1, j |-> acc.j + 1]
                  [] op = "INS"   -> [acc EXCEPT !.out = Append(@, pref[acc.j + 1]), !.j = @ + 1]
                  [] op = "DEL"   -> [acc EXCEPT !.i = @ + 1]
                  [] op = "SUBST" -> [out |-> Append(acc.out, pref[acc.j + 1]),
                                      i |-> acc.i + 1, j |-> acc.j + 1],
                [out |-> <<>>, i |-> 0, j |-> 0], ops)
  IN made.out \o SubSeq(word, made.i + 1, Len(word))

\* mutant: a word that is inserted in the prefix is left out.
CorrectionStepDropsIns(uncorr, pref, acc, op) ==
  LET word == RemoveLastBlank(pref[acc.j + 1]) IN
  CASE op = "INS"   -> [acc EXCEPT !.j = @ + 1]
    [] op = "DEL"   -> [acc EXCEPT !.i = @ + 1]
    [] op = "SUBST" -> [out |-> Append(acc.out, word), i |-> acc.i + 1, j |-> acc.j + 1]
    [] op = "HIT"   -> [out |-> Append(acc.out, word), i |-> acc.i + 1, j |-> acc.j + 1]

\* One operation of correctStrGivenPrefOps: what stands in the prefix is taken,
\* and an incomplete last word that is hit is completed.
CorrectionStep(uncorr, pref, acc, op) ==
  LET word == RemoveLastBlank(pref[acc.j + 1])
      x    == uncorr[acc.i + 1]
      completed == CorrectWordGivenPrefOps(Operations(CharDistMatrix(x, word, TRUE)), x, word)
  IN CASE op = "INS"   -> [acc EXCEPT !.out = Append(@, word), !.j = @ + 1]
       [] op = "DEL"   -> [acc EXCEPT !.i = @ + 1]
       [] op = "SUBST" -> [out |-> Append(acc.out, word), i |-> acc.i + 1, j |-> acc.j + 1]
       [] op = "HIT"   ->
            [out |-> Append(acc.out, IF acc.j + 1 = Len(pref) /\ ~LastWordIsComplete(pref)
                                       THEN completed ELSE word),
             i |-> acc.i + 1, j |-> acc.j + 1]

CorrectStrGivenPref(uncorr, pref) ==
  LET made == FoldLeft(LAMBDA acc, op : CorrectionStep(uncorr, pref, acc, op),
                       [out |-> <<>>, i |-> 0, j |-> 0], Operations(WordDistMatrix(uncorr, pref)))
  IN made.out \o SubSeq(uncorr, made.i + 1, Len(uncorr))
=============================================================================
