------------------------------ MODULE EngineOS ------------------------------
(***************************************************************************)
(* EngineOS of src/engine_os.h: a buffer of kStateT words that is refilled  *)
(* from /dev/urandom.  A word is named by its place on the device, counted  *)
(* in words of T since the file was opened.  The library reads through a    *)
(* buffer of its own and may deliver less than it was asked for, which      *)
(* RANDEN_CHECK answers with abort; so it does when the file cannot be      *)
(* opened or closed.                                                        *)
(***************************************************************************)
EXTENDS Integers

CONSTANTS
    kStateT,    \* 256 / sizeof(T)
    MaxReads    \* bound: successful refills

ASSUME BufferAssumption ==
    /\ kStateT \in Nat \ {0}
    /\ MaxReads \in Nat

VARIABLES
    state_,     \* places of the words in the buffer, -1 before a read
    next_,
    device,     \* words taken from the device by reads that succeeded
    file,       \* "open", "closed" or "aborted"
    word        \* the word returned last, as a sequence of length 0 or 1

osVars == <<state_, next_, device, file, word>>

NoWord == [k \in 0 .. -1 |-> 0]

-----------------------------------------------------------------------------
\* The constructor; a device that cannot be opened ends the program.
OSInit ==
    /\ state_ = [k \in 0 .. kStateT - 1 |-> -1]
    /\ next_ = kStateT
    /\ device = 0
    /\ file \in {"open", "aborted"}
    /\ word = NoWord

Exhausted_OffByOne == next_ >= kStateT - 1

Exhausted == next_ >= kStateT

\* What fread makes of the buffer when it delivers n words.
Read(n) ==
    [k \in 0 .. kStateT - 1 |-> IF k < n THEN device + k ELSE state_[k]]

Accepted_Some(n) == n > 0

\* RANDEN_CHECK(bytes_read == sizeof(state_)), in words.
Accepted(n) == n = kStateT

\* A call with words left in the buffer.
CallBuffered ==
    /\ file = "open"
    /\ ~Exhausted
    /\ word' = [k \in {0} |-> state_[next_]]
    /\ next_' = next_ + 1
    /\ UNCHANGED <<state_, device, file>>

\* A call that refills the buffer first.
CallRefill(n) ==
    /\ file = "open"
    /\ Exhausted
    /\ device + kStateT <= MaxReads * kStateT
    /\ state_' = Read(n)
    /\ IF Accepted(n)
       THEN /\ device' = device + n
            /\ word' = [k \in {0} |-> Read(n)[0]]
            /\ next_' = 1
            /\ UNCHANGED file
       ELSE /\ file' = "aborted"
            /\ UNCHANGED <<device, next_, word>>

\* The destructor.
OSClose ==
    /\ file = "open"
    /\ file' \in {"closed", "aborted"}
    /\ UNCHANGED <<state_, next_, device, word>>

OSNext ==
    \/ CallBuffered
    \/ \E n \in 0 .. kStateT : CallRefill(n)
    \/ OSClose

OSSpec == OSInit /\ [][OSNext]_osVars

-----------------------------------------------------------------------------
(* Properties.                                                             *)

\* The words in front of next_ have been returned, those from there on are
\* the last ones taken from the device, unless a read failed: no call can see
\* a word of an earlier read or the uninitialized buffer.
BufferIsFresh ==
    file # "aborted" =>
      /\ next_ \in 0 .. kStateT
      /\ \A k \in 0 .. kStateT - 1 :
           next_ <= k => state_[k] = device - kStateT + k

\* Words of the device that calls have returned.
Delivered == device - kStateT + next_

Place(name, p) == p

DeviceTape == INSTANCE WordTape WITH
    Keys <- {0}, Tape <- Place, width <- 1, Length <- MaxReads * kStateT + 1,
    key <- 0, pos <- Delivered, out <- word

\* Calls return consecutive words of the device, also across refills, and a
\* short read lets no call return a stale word: the RANDEN_CHECK of line 73
\* ends the program before.
ImplementsDevice == DeviceTape!Spec
=============================================================================
