--------------------------- MODULE ConversationStore ---------------------------
(***************************************************************************)
(* What the sessions of this assistant rely on in the store's conversation *)
(* ids: a conversation may name the one it continues (the ancestor         *)
(* reference of a compacted thread, lineage.rs), conversations are deleted *)
(* in any order, and the id above the highest one alive is issued next, so *)
(* a deleted conversation's id may come back.                              *)
(*                                                                         *)
(* docs/units/63 argues from this that the lineage walk is safe: "an       *)
(* ancestor's id is never reissued while a successor of it exists, because *)
(* the store allocates above the highest live id".                         *)
(***************************************************************************)
EXTENDS Integers

CONSTANTS
    MaxConv,    \* conversation ids the store can issue
    MaxBirths   \* conversations ever created

ASSUME StoreAssumption == MaxConv \in Nat /\ MaxBirths \in Nat

ConvIds == 1..MaxConv
Births  == 1..MaxBirths

\* No conversation, no birth.
None == 0

VARIABLES
    born,        \* conversation id -> the birth holding it, None when free
    births,      \* conversations created so far
    parent,      \* conversation -> the id its ancestor reference names
    parentBirth  \* conversation -> the birth that id named when it was written

storeVars == <<born, births, parent, parentBirth>>

Live == {c \in ConvIds : born[c] # None}

StoreTypeOK ==
    /\ born \in [ConvIds -> Births \cup {None}]
    /\ births \in 0..MaxBirths
    /\ parent \in [ConvIds -> ConvIds \cup {None}]
    /\ parentBirth \in [ConvIds -> Births \cup {None}]

StoreInit ==
    /\ born = [c \in ConvIds |-> None]
    /\ births = 0
    /\ parent = [c \in ConvIds |-> None]
    /\ parentBirth = [c \in ConvIds |-> None]

\* Faulty variant: the lowest free id is issued.
LowestFree(c) ==
    /\ c \in ConvIds \ Live
    /\ \A other \in ConvIds \ Live : c <= other

\* The id the store issues next.
NextConv(c) ==
    /\ c \in ConvIds
    /\ \A other \in Live : other < c
    /\ c = 1 \/ c - 1 \in Live

\* Conversations are deleted.
Dropped(gone) ==
    /\ born' = [c \in ConvIds |-> IF c \in gone THEN None ELSE born[c]]
    /\ parent' = [c \in ConvIds |-> IF c \in gone THEN None ELSE parent[c]]
    /\ parentBirth' = [c \in ConvIds |->
                         IF c \in gone THEN None ELSE parentBirth[c]]
    /\ UNCHANGED births

\* What a new conversation's reference may name: nothing, the conversation it
\* continues, or what another one's reference names (a fork shares the block).
References ==
    {[conv |-> None, birth |-> None]}
        \cup {[conv |-> d, birth |-> born[d]] : d \in Live}
        \cup {[conv |-> parent[s], birth |-> parentBirth[s]] : s \in Live}

\* A conversation c is created with reference r, and what it replaces goes in
\* the same stretch.
OpenedAndDropped(c, r, gone) ==
    LET At(f, new, free) == [d \in ConvIds |-> IF d = c THEN new
                                               ELSE IF d \in gone THEN free ELSE f[d]]
    IN /\ NextConv(c)
       /\ births < MaxBirths
       /\ births' = births + 1
       /\ born' = At(born, births + 1, None)
       /\ parent' = At(parent, r.conv, None)
       /\ parentBirth' = At(parentBirth, r.birth, None)

StoreNext ==
    \E gone \in SUBSET Live :
        \/ Dropped(gone)
        \/ \E c \in ConvIds, r \in References : OpenedAndDropped(c, r, gone)

StoreSpec == StoreInit /\ [][StoreNext]_storeVars

-----------------------------------------------------------------------------
\* An ancestor reference names the conversation it was written for, or one
\* that is gone: never a stranger the id was issued to since (lineage.rs, the
\* serving lineage's walk).
NeverAStranger ==
    \A c \in Live : parent[c] # None =>
        born[parent[c]] \in {None, parentBirth[c]}

\* A reference points below its holder, so every lineage walk ends.
PointsBelow == \A c \in Live : parent[c] # None => parent[c] < c

LineageSound == NeverAStranger /\ PointsBelow
=============================================================================
