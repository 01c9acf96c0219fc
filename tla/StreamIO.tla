------------------------------ MODULE StreamIO ------------------------------
(***************************************************************************)
(* Saving an engine to a text and restoring it: operator<< and operator>>   *)
(* of src/randen.h.  A text is a sequence of characters, given by their     *)
(* codes.  Insertion and extraction are a step per operand; the stream may  *)
(* end early (a file that was cut short).  The standard library prints      *)
(* numbers in decimal, but T may be a character type, std::uint8_t, which   *)
(* it inserts and extracts as one character.                               *)
(***************************************************************************)
EXTENDS Integers, Sequences

CONSTANTS
    StateWords, \* StateWords, the words of the state
    Saved,      \* engines: records of state, a sequence of words, and next
    CharT,      \* T is a character type
    Decimal(_), \* the digits that std::num_put prints of a number
    ValueOf(_)  \* the number that std::num_get makes of digits

Space == {9, 10, 11, 12, 13, 32}

Digit == 48 .. 57

ASSUME SavedAssumption ==
    /\ StateWords \in Nat \ {0}
    /\ Saved \subseteq [state : [1 .. StateWords -> Nat], next : Nat]
    /\ CharT \in BOOLEAN

\* A number is read as it was printed, and the first digits of one are a number.
Printable(n) ==
    /\ Decimal(n) \in Seq(Digit) \ {<< >>}
    /\ ValueOf(Decimal(n)) = n
    /\ \A m \in 1 .. Len(Decimal(n)) : ValueOf(SubSeq(Decimal(n), 1, m)) \in Nat

ASSUME DecimalAssumption ==
    \A e \in Saved :
      Printable(e.next) /\ \A k \in 1 .. StateWords : Printable(e.state[k])

VARIABLES
    engine,     \* the engine inserted last
    text,       \* what the stream holds
    offset,     \* history: characters in front of each operand of operator<<
    cut,        \* the stream lost its end
    at,         \* the next character to extract
    state, next,    \* the locals of operator>>
    fail,       \* failbit
    target,     \* the engine to restore
    old,        \* history: the target before operator>>
    pc          \* "done", "inserting", "inserted", "words", "next"

ioVars == <<engine, text, offset, cut, at, state, next, fail, target, old, pc>>

-----------------------------------------------------------------------------
(* The standard library.                                                   *)

\* The first character from j on that is not of a class, or the end.
EndOfRun(class, j) ==
    CHOOSE k \in j .. Len(text) + 1 :
      /\ \A i \in j .. k - 1 : text[i] \in class
      /\ k <= Len(text) => text[k] \notin class

\* Formatted input skips white space first.
Start == EndOfRun(Space, at)

NumberAt(j) == ValueOf(SubSeq(text, j, EndOfRun(Digit, j) - 1))

-----------------------------------------------------------------------------
\* os << x
Printed(x) == IF CharT THEN <<x>> ELSE Decimal(x)

\* os.fill(), set to a space.
Fill == 32

Inserted_Between(k) ==
    IF k = StateWords THEN Printed(engine.state[k])
    ELSE Append(Printed(engine.state[k]), Fill)

\* Every word is followed by the fill character.
Inserted(k) == Append(Printed(engine.state[k]), Fill)

IOInit ==
    /\ engine \in Saved
    /\ target = engine
    /\ old = engine
    /\ text = << >>
    /\ offset = << >>
    /\ cut = FALSE
    /\ at = 1
    /\ state = << >>
    /\ next = 0
    /\ fail = FALSE
    /\ pc = "done"

\* operator<< into an empty stream.
Insert(e) ==
    /\ pc = "done"
    /\ engine' = e
    /\ text' = << >>
    /\ offset' = << >>
    /\ cut' = FALSE
    /\ at' = 1
    /\ state' = << >>
    /\ next' = 0
    /\ fail' = FALSE
    /\ old' = target
    /\ pc' = "inserting"
    /\ UNCHANGED target

InsertWord ==
    /\ pc = "inserting"
    /\ Len(offset) < StateWords
    /\ text' = text \o Inserted(Len(offset) + 1)
    /\ offset' = Append(offset, Len(text))
    /\ UNCHANGED <<engine, cut, at, state, next, fail, target, old, pc>>

\* The index is last.
InsertNext ==
    /\ pc = "inserting"
    /\ Len(offset) = StateWords
    /\ text' = text \o Decimal(engine.next)
    /\ offset' = Append(offset, Len(text))
    /\ pc' = "inserted"
    /\ UNCHANGED <<engine, cut, at, state, next, fail, target, old>>

\* The stream is stored and only n characters of it come back.
CutShort(n) ==
    /\ pc = "inserted"
    /\ text' = SubSeq(text, 1, n)
    /\ cut' = TRUE
    /\ pc' = "words"
    /\ UNCHANGED <<engine, offset, at, state, next, fail, target, old>>

Begin ==
    /\ pc = "inserted"
    /\ pc' = "words"
    /\ UNCHANGED <<engine, text, offset, cut, at, state, next, fail, target, old>>

\* Nothing is extracted once the stream has failed.
CanExtract(char) ==
    /\ ~fail
    /\ Start <= Len(text)
    /\ char \/ text[Start] \in Digit

\* is >> x, for the words of the state one after the other.
ExtractWord ==
    /\ pc = "words"
    /\ Len(state) < StateWords
    /\ IF CanExtract(CharT)
       THEN /\ state' = Append(state, IF CharT THEN text[Start] ELSE NumberAt(Start))
            /\ at' = IF CharT THEN Start + 1 ELSE EndOfRun(Digit, Start)
            /\ fail' = FALSE
       ELSE /\ state' = Append(state, 0)
            /\ fail' = TRUE
            /\ UNCHANGED at
    /\ pc' = IF Len(state) + 1 = StateWords THEN "next" ELSE "words"
    /\ UNCHANGED <<engine, text, offset, cut, next, target, old>>

\* is >> next
Extracted == CanExtract(FALSE)

Restored_Always(ok) == [state |-> state, next |-> NumberAt(Start)]

\* The engine is overwritten only when everything could be extracted.
Restored(ok) ==
    IF ok THEN [state |-> state, next |-> NumberAt(Start)] ELSE target

ExtractNext ==
    /\ pc = "next"
    /\ next' = IF Extracted THEN NumberAt(Start) ELSE 0
    /\ at' = IF Extracted THEN EndOfRun(Digit, Start) ELSE at
    /\ fail' = ~Extracted
    /\ target' = Restored(Extracted)
    /\ pc' = "done"
    /\ UNCHANGED <<engine, text, offset, cut, state, old>>

IONext ==
    \/ \E e \in Saved : Insert(e)
    \/ InsertWord
    \/ InsertNext
    \/ \E n \in 0 .. Len(text) - 1 : CutShort(n)
    \/ Begin
    \/ ExtractWord
    \/ ExtractNext

IOSpec == IOInit /\ [][IONext]_ioVars

-----------------------------------------------------------------------------
(* Properties.                                                             *)

\* What VerifyStreamOperators (randen_test.cc:258-274) asserts of one engine:
\* what operator<< wrote, operator>> reads back into an equal engine, and so
\* both return the same words from there.
RoundTrip ==
    pc = "done" /\ ~cut => ~fail /\ target = engine

\* A text that was cut short never leaves an engine that is neither the old
\* one nor has the state that was written (randen.h:180-191): the words are
\* taken all or not at all, and not at all when a failure was reported.
AllWordsOrNone ==
    /\ target.state \in {old.state, engine.state}
    /\ pc = "done" /\ fail => target = old
=============================================================================
