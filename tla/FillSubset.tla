----------------------------- MODULE FillSubset -----------------------------
(***************************************************************************)
(* How the benchmark (src/nanobenchmark.cc) makes its input distributions:  *)
(* ReplicateInputs copies the inputs subset_ratio * num_skip times and      *)
(* shuffles them into full, and FillSubset copies full to subset without    *)
(* num_skip randomly chosen occurrences of one input.  A step is one        *)
(* element of full.  The module has no Next of its own: Measure calls       *)
(* FillSubset once per unique input, always with the same vector subset,    *)
(* which starts with zeros and then holds what the previous call left.      *)
(***************************************************************************)
EXTENDS Integers, SequencesExt, FiniteSetsExt

CONSTANTS
    Input,          \* unique inputs, numbers
    Times,          \* how often each of them is among the inputs
    subset_ratio,   \* Params::subset_ratio
    Mod             \* numbers of uint32_t

\* nanobenchmark.h:93-96: the ratio "cannot be less than 2".
ASSUME InputAssumption ==
    /\ Input \subseteq Nat \ {0} /\ IsFiniteSet(Input)
    /\ Times \in [Input -> Nat \ {0}]
    /\ subset_ratio \in Nat /\ subset_ratio >= 2
    /\ Mod \in Nat \ {0}

VARIABLES
    num_skip,       \* occurrences to leave out
    full, subset,
    input_to_skip,
    omit,           \* sorted indices of the occurrences to leave out
    occurrence, idx_omit, idx_subset,
    idx,            \* elements of full that the loop has seen
    filling         \* "no", "loop", or "aborted" by a check of a checked build

loopVars == <<occurrence, idx_omit, idx_subset, idx>>

fillVars == <<full, subset, input_to_skip, omit, loopVars, filling>>

-----------------------------------------------------------------------------
\* With a single unique input its multiplicity does not count.
Occurrences(n) ==
    [x \in Input |->
       IF Cardinality(Input) = 1 THEN subset_ratio * n
       ELSE subset_ratio * n * Times[x]]

\* As many elements as there are pairs of an input and one of its copies.
Size(n) == Cardinality(UNION {{x} \X (1 .. Occurrences(n)[x]) : x \in Input})

\* What ReplicateInputs returns: any order of the replicated inputs.
Arrangements(n) ==
    {f \in [1 .. Size(n) -> Input] :
       \A x \in Input :
         Quantify(DOMAIN f, LAMBDA k : f[k] = x) = Occurrences(n)[x]}

\* std::shuffle, resize and std::sort of the indices of the occurrences of x.
Omissions(x) ==
    {o \in [0 .. num_skip - 1 -> 0 .. Occurrences(num_skip)[x] - 1] :
       \A j, k \in 0 .. num_skip - 1 : j < k => o[j] < o[k]}

FillInit ==
    /\ full = << >>
    /\ subset = << >>
    /\ input_to_skip = 0
    /\ omit = << >>
    /\ occurrence = 0 /\ idx_omit = 0 /\ idx_subset = 0
    /\ idx = 0
    /\ filling = "no"

\* ReplicateInputs, and the vector that all calls of FillSubset share.
Replicate(n) ==
    /\ full' \in Arrangements(n)
    /\ subset' = [k \in 0 .. Size(n) - n - 1 |-> 0]
    /\ UNCHANGED <<input_to_skip, omit, loopVars, filling>>

\* FillSubset is entered.
FillBegin(x) ==
    /\ input_to_skip' = x
    /\ omit' \in Omissions(x)
    /\ occurrence' = Mod - 1
    /\ idx_omit' = 0
    /\ idx_subset' = 0
    /\ idx' = 0
    /\ filling' = "loop"
    /\ UNCHANGED <<full, subset>>

Element == full[idx + 1]

\* ++occurrence wraps: the first occurrence is number 0.
Seen_FromOne == IF Element = input_to_skip THEN occurrence + 1 ELSE occurrence

Seen ==
    IF Element = input_to_skip THEN (occurrence + 1) % Mod ELSE occurrence

Leave_FirstOnes ==
    /\ Element = input_to_skip
    /\ idx_omit < num_skip

\* This element is an occurrence that is up for removal.
Leave ==
    /\ Element = input_to_skip
    /\ idx_omit < num_skip
    /\ omit[idx_omit] = Seen

Skip ==
    /\ filling = "loop" /\ idx < Len(full)
    /\ Leave
    /\ occurrence' = Seen
    /\ idx_omit' = idx_omit + 1
    /\ idx' = idx + 1
    /\ UNCHANGED <<full, subset, input_to_skip, omit, idx_subset, filling>>

\* An element that is kept is dropped if subset is full.
Fits == idx_subset < Cardinality(DOMAIN subset)

Keep ==
    /\ filling = "loop" /\ idx < Len(full)
    /\ ~Leave
    /\ occurrence' = Seen
    /\ subset' = IF Fits THEN [subset EXCEPT ![idx_subset] = Element] ELSE subset
    /\ idx_subset' = IF Fits THEN idx_subset + 1 ELSE idx_subset
    /\ idx' = idx + 1
    /\ UNCHANGED <<full, input_to_skip, omit, idx_omit, filling>>

\* The three NANOBENCHMARK_CHECKs, which a build has only on demand.
Checks ==
    /\ idx_subset = Cardinality(DOMAIN subset)
    /\ idx_omit = num_skip
    /\ occurrence = Occurrences(num_skip)[input_to_skip] - 1

\* FillSubset returns; checked tells whether the build has the checks.
FillReturn(checked) ==
    /\ filling = "loop" /\ idx = Len(full)
    /\ filling' = IF checked /\ ~Checks THEN "aborted" ELSE "no"
    /\ UNCHANGED <<full, subset, input_to_skip, omit, loopVars>>

-----------------------------------------------------------------------------
(* Properties.                                                             *)

\* "Copies the full to subset in the same order, but with num_skip randomly
\* selected occurrences of input_to_skip removed" (lines 676-677): the result
\* is that of removing the chosen positions, element by element, whatever the
\* vector held before.
SubsetOfFull ==
    filling = "no" /\ input_to_skip # 0 =>
      LET places == {k \in DOMAIN full : full[k] = input_to_skip}
          nth(k) == Quantify(places, LAMBDA j : j < k)
          gone   == {k \in places : \E j \in DOMAIN omit : omit[j] = nth(k)}
          kept   == DOMAIN full \ gone
      IN  /\ Cardinality(gone) = num_skip
          /\ \A k \in kept :
               subset[Quantify(kept, LAMBDA j : j < k)] = full[k]

\* Throughout the loop an element is either copied or left out: the test of
\* line 706 drops none, and the checks at the end, which the build leaves out
\* (lines 65-79), would not fail.
NothingDropped ==
    filling = "loop" =>
      /\ idx_subset + idx_omit = idx
      /\ idx = Len(full) => Checks
=============================================================================
