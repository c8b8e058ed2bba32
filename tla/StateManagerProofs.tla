-------------------------- MODULE StateManagerProofs --------------------------
(***************************************************************************)
(* What the methods of StateManager do to the journal stack and the cache: *)
(* the lemmas that the proofs about its callers share.                     *)
(***************************************************************************)
EXTENDS StateManager, CountingUp, TLAPS

-----------------------------------------------------------------------------
(* The journal stack and the types of the cache *)

\* Sequences that agree everywhere are the same.
LEMMA SameSequence ==
    ASSUME NEW S, NEW s \in Seq(S), NEW t \in Seq(S), Len(s) = Len(t),
           \A i \in 1..Len(s) : s[i] = t[i]
    PROVE  s = t
<1>1. /\ s = [i \in 1..Len(s) |-> s[i]]
      /\ t = [i \in 1..Len(t) |-> t[i]]
    OBVIOUS
<1>2. QED
    BY <1>1

\* A sequence with one more element.
LEMMA Appended ==
    ASSUME NEW S, NEW s \in Seq(S), NEW x \in S
    PROVE  /\ Append(s, x) \in Seq(S)
           /\ Len(Append(s, x)) = Len(s) + 1
           /\ \A i \in 1..Len(s) : Append(s, x)[i] = s[i]
           /\ Append(s, x)[Len(s) + 1] = x
OBVIOUS

\* Without it the sequence is as before.
LEMMA AppendedGoes ==
    ASSUME NEW S, NEW s \in Seq(S), NEW x \in S
    PROVE  SubSeq(Append(s, x), 1, Len(Append(s, x)) - 1) = s
<1> DEFINE t == Append(s, x)
           u == SubSeq(t, 1, Len(t) - 1)
<1>1. /\ t \in Seq(S) /\ Len(t) = Len(s) + 1 /\ Len(s) \in Nat
      /\ \A i \in 1..Len(s) : t[i] = s[i]
    BY Appended
<1> HIDE DEF t
<1>2. /\ u \in Seq(S) /\ Len(u) = Len(s)
      /\ \A i \in 1..Len(s) : u[i] = t[i]
    BY <1>1
<1> HIDE DEF u
<1>3. u = s
    BY <1>1, <1>2, SameSequence
<1>4. QED
    BY <1>3 DEF u, t

\* A sequence is its last element after the others.
LEMMA SequenceSplits ==
    ASSUME NEW S, NEW s \in Seq(S), s # <<>>
    PROVE  LET n == Len(s)
               t == SubSeq(s, 1, n - 1)
           IN  /\ t \in Seq(S) /\ Len(t) = n - 1
               /\ s[n] \in S
               /\ s = Append(t, s[n])
               /\ \A x \in S : [s EXCEPT ![n] = x] = Append(t, x)
<1> DEFINE n == Len(s)
           t == SubSeq(s, 1, n - 1)
<1>1. n \in Nat /\ n > 0 /\ DOMAIN s = 1..n
    OBVIOUS
<1>2. /\ t \in Seq(S) /\ Len(t) = n - 1
      /\ \A i \in 1..(n - 1) : t[i] = s[i]
    BY <1>1
<1>3. s[n] \in S
    BY <1>1
<1> HIDE DEF t
<1>4. ASSUME NEW x \in S
      PROVE  [s EXCEPT ![n] = x] = Append(t, x)
    <2> DEFINE u == [s EXCEPT ![n] = x]
               v == Append(t, x)
    <2>1. u \in Seq(S) /\ Len(u) = n
        BY <1>1
    <2> HIDE DEF n
    <2>2. /\ \A i \in 1..(n - 1) : u[i] = s[i]
          /\ u[n] = x
        BY <1>1
    <2>3. /\ v \in Seq(S) /\ Len(v) = n
          /\ \A i \in 1..(n - 1) : v[i] = t[i]
          /\ v[n] = x
        BY <1>1, <1>2, Appended
    <2> HIDE DEF u, v
    <2>4. \A i \in 1..n : u[i] = v[i]
        BY <1>1, <1>2, <2>2, <2>3
    <2>5. u = v
        BY <1>1, <2>1, <2>3, <2>4, SameSequence
    <2>6. QED
        BY <2>5 DEF u, v
<1>5. s = [s EXCEPT ![n] = s[n]]
    BY <1>1
<1>6. QED
    BY <1>2, <1>3, <1>4, <1>5 DEF t

\* The last element of a sequence is replaced.
LEMMA LastReplaced ==
    ASSUME NEW S, NEW s \in Seq(S), NEW x \in S, NEW y \in S
    PROVE  [Append(s, x) EXCEPT ![Len(Append(s, x))] = y] = Append(s, y)
<1> DEFINE t == Append(s, x)
<1>1. t \in Seq(S) /\ Len(t) = Len(s) + 1 /\ Len(s) \in Nat
    BY Appended
<1>2. SubSeq(t, 1, Len(t) - 1) = s
    BY AppendedGoes
<1> HIDE DEF t
<1>3. t # <<>>
    BY <1>1
<1>4. [t EXCEPT ![Len(t)] = y] = Append(SubSeq(t, 1, Len(t) - 1), y)
    BY <1>1, <1>3, SequenceSplits
<1>5. QED
    BY <1>2, <1>4 DEF t

\* Setting an account changes one entry of the innermost level and leaves the
\* height of the stack; on an empty stack it puts a level.
LEMMA SetAccountType ==
    ASSUME NEW a \in Addr, NEW obj \in Object,
           journalStack \in Seq(Journal),
           SetAccount(a, obj)
    PROVE  /\ journalStack' \in Seq(Journal)
           /\ Len(journalStack') = IF journalStack = <<>>
                                   THEN 1 ELSE Len(journalStack)
<1> DEFINE n == Len(journalStack)
<1>1. CASE journalStack # <<>>
    <2>1. n \in 1..n /\ DOMAIN journalStack = 1..n
        BY <1>1
    <2>2. journalStack[n] \in Journal
        BY <2>1
    <2>3. [journalStack[n] EXCEPT ![a] = obj] \in Journal
        BY <2>2 DEF Journal, Entry
    <2>4. journalStack' = [journalStack EXCEPT ![n] =
                                [journalStack[n] EXCEPT ![a] = obj]]
        BY <1>1 DEF SetAccount
    <2>5. QED
        BY <1>1, <2>1, <2>3, <2>4
<1>2. CASE journalStack = <<>>
    <2>1. [EmptyJournal EXCEPT ![a] = obj] \in Journal
        BY DEF EmptyJournal, Journal, Entry
    <2>2. journalStack' = <<[EmptyJournal EXCEPT ![a] = obj]>>
        BY <1>2 DEF SetAccount
    <2>3. QED
        BY <1>2, <2>1, <2>2
<1>3. QED
    BY <1>1, <1>2

\* A new level is put on the stack.
LEMMA CheckpointType ==
    ASSUME journalStack \in Seq(Journal), Checkpoint
    PROVE  /\ journalStack' \in Seq(Journal)
           /\ Len(journalStack') = Len(journalStack) + 1
<1>1. EmptyJournal \in Journal
    BY DEF EmptyJournal, Journal, Entry
<1>2. QED
    BY <1>1 DEF Checkpoint

\* Without its innermost level a stack is a stack.
LEMMA PoppedType ==
    ASSUME journalStack \in Seq(Journal), journalStack # <<>>
    PROVE  /\ Popped \in Seq(Journal)
           /\ Len(Popped) = Len(journalStack) - 1
<1> DEFINE n == Len(journalStack)
<1>1. n \in Nat /\ n > 0
    OBVIOUS
<1>2. \A i \in 1..(n - 1) : journalStack[i] \in Journal
    BY <1>1
<1>3. Popped = [i \in 1..(n - 1) |-> journalStack[i]]
    BY <1>1 DEF Popped
<1>4. QED
    BY <1>1, <1>2, <1>3

\* commitCheckpoint leaves one level less and the next one a journal.
LEMMA CommitCheckpointType ==
    ASSUME journalStack \in Seq(Journal), CommitCheckpoint
    PROVE  /\ journalStack' \in Seq(Journal)
           /\ Len(journalStack') = Len(journalStack) - 1
<1> DEFINE n == Len(journalStack)
           top == journalStack[n]
           low == journalStack[n - 1]
           both == [a \in Addr |-> IF top[a] # NoEntry THEN top[a]
                                                       ELSE low[a]]
<1>1. journalStack # <<>>
    BY DEF CommitCheckpoint
<1> HIDE DEF top, low, both
<1>2. CASE n = 1
    BY <1>1, <1>2 DEF CommitCheckpoint
<1>3. CASE n > 1
    <2>1. top \in Journal /\ low \in Journal
        BY <1>3 DEF top, low
    <2>2. both \in Journal
        <3> SUFFICES ASSUME NEW a \in Addr
                     PROVE  top[a] \in Entry /\ low[a] \in Entry
            BY DEF Journal, both
        <3>1. QED
            BY <2>1 DEF Journal
    <2>3. journalStack' = [Popped EXCEPT ![n - 1] = both]
        BY <1>1, <1>3 DEF CommitCheckpoint, both, top, low
    <2>4. Popped \in Seq(Journal) /\ Len(Popped) = n - 1
        BY <1>1, PoppedType
    <2>5. QED
        BY <1>3, <2>2, <2>3, <2>4
<1>4. n = 1 \/ n > 1
    BY <1>1
<1> HIDE DEF n
<1>5. QED
    BY <1>2, <1>3, <1>4

\* Each entry after commitCheckpoint was an entry before: of the same level, or
\* for the new innermost level of one of the two that were merged.
LEMMA CommittedLevels ==
    ASSUME journalStack \in Seq(Journal), CommitCheckpoint,
           Len(journalStack) > 1
    PROVE  /\ DOMAIN journalStack' = 1..(Len(journalStack) - 1)
           /\ \A i \in 1..(Len(journalStack) - 2) :
                 journalStack'[i] = journalStack[i]
           /\ \A a \in Addr :
                 journalStack'[Len(journalStack) - 1][a] =
                    IF journalStack[Len(journalStack)][a] # NoEntry
                    THEN journalStack[Len(journalStack)][a]
                    ELSE journalStack[Len(journalStack) - 1][a]
<1> DEFINE n == Len(journalStack)
           top == journalStack[n]
           low == journalStack[n - 1]
           both == [a \in Addr |-> IF top[a] # NoEntry THEN top[a]
                                                       ELSE low[a]]
<1>1. journalStack' = [Popped EXCEPT ![n - 1] = both]
    BY DEF CommitCheckpoint
<1>2. /\ DOMAIN Popped = 1..(n - 1)
      /\ \A i \in 1..(n - 1) : Popped[i] = journalStack[i]
      /\ n \in Nat
    BY DEF Popped
<1> HIDE DEF both
<1>3. /\ DOMAIN journalStack' = 1..(n - 1)
      /\ \A i \in 1..(n - 2) : journalStack'[i] = journalStack[i]
      /\ journalStack'[n - 1] = both
    BY <1>1, <1>2
<1>4. QED
    BY <1>3 DEF both

\* Putting an account in the cache keeps the types of the cache.
LEMMA AddToCacheType ==
    ASSUME NEW a \in Addr, NEW obj \in Object,
           cache \in [Addr -> Object \cup {NoEntry}],
           cacheKeys \in Seq(Addr),
           AddToCache(a, obj)
    PROVE  /\ cache' \in [Addr -> Object \cup {NoEntry}]
           /\ cacheKeys' \in Seq(Addr)
<1> DEFINE full == Len(cacheKeys) >= CacheSizeLimit
           kept == IF full THEN Tail(cacheKeys) ELSE cacheKeys
<1>1. cache' \in [Addr -> Object \cup {NoEntry}]
    BY DEF AddToCache
<1>2. kept \in Seq(Addr)
    BY CacheSizeLimitAssumption
<1>3. cacheKeys' = kept \/ cacheKeys' = Append(kept, a)
    BY DEF AddToCache
<1> HIDE DEF kept
<1>4. QED
    BY <1>1, <1>2, <1>3

\* After addToCache the cache has the new account at its address; at any
\* other address it has what it had, or nothing.
LEMMA AddToCacheEntries ==
    ASSUME NEW a \in Addr, NEW obj \in Object, AddToCache(a, obj)
    PROVE  /\ cache'[a] = obj
           /\ \A b \in Addr \ {a} : cache'[b] \in {cache[b], NoEntry}
BY DEF AddToCache

\* A stack is its innermost level on the others.
LEMMA StackSplits ==
    ASSUME journalStack \in Seq(Journal), journalStack # <<>>
    PROVE  /\ Popped \in Seq(Journal)
           /\ Len(Popped) = Len(journalStack) - 1
           /\ journalStack[Len(journalStack)] \in Journal
           /\ journalStack = Append(Popped, journalStack[Len(journalStack)])
           /\ \A j \in Journal :
                 [journalStack EXCEPT ![Len(journalStack)] = j] =
                    Append(Popped, j)
<1>1. Popped \in Seq(Journal) /\ Len(Popped) = Len(journalStack) - 1
    BY PoppedType
<1>2. QED
    BY <1>1, SequenceSplits DEF Popped

-----------------------------------------------------------------------------
(* Merging the levels *)

\* The innermost level with an entry is one of the levels with an entry.
LEMMA InnermostIsLevel ==
    ASSUME NEW s \in Seq(Journal), NEW a, LevelsWith(s, a) # {}
    PROVE  /\ Innermost(s, a) \in LevelsWith(s, a)
           /\ \A j \in LevelsWith(s, a) : j <= Innermost(s, a)
<1>1. LevelsWith(s, a) \subseteq 0..Len(s)
    BY DEF LevelsWith
<1>2. \E i \in LevelsWith(s, a) : \A j \in LevelsWith(s, a) : j <= i
    BY <1>1, Greatest
<1>3. QED
    BY <1>2 DEF Innermost

\* No other level than the innermost one will do.
LEMMA InnermostIs ==
    ASSUME NEW s \in Seq(Journal), NEW a, NEW i \in LevelsWith(s, a),
           \A j \in LevelsWith(s, a) : j <= i
    PROVE  Innermost(s, a) = i
<1>1. /\ Innermost(s, a) \in LevelsWith(s, a)
      /\ i <= Innermost(s, a)
    BY InnermostIsLevel
<1>2. Innermost(s, a) <= i
    BY <1>1
<1>3. Innermost(s, a) \in Nat /\ i \in Nat
    BY <1>1 DEF LevelsWith
<1>4. QED
    BY <1>1, <1>2, <1>3

\* What the levels say together of an address one of them says.
LEMMA MergedIsEntry ==
    ASSUME NEW s \in Seq(Journal), NEW a \in Addr
    PROVE  /\ (\A i \in DOMAIN s : s[i][a] = NoEntry) => Merged(s)[a] = NoEntry
           /\ (\E i \in DOMAIN s : s[i][a] # NoEntry) =>
                 \E i \in DOMAIN s : Merged(s)[a] = s[i][a]
                                     /\ s[i][a] # NoEntry
<1>1. ASSUME \A i \in DOMAIN s : s[i][a] = NoEntry
      PROVE  Merged(s)[a] = NoEntry
    BY <1>1 DEF Merged, LevelsWith
<1>2. ASSUME \E i \in DOMAIN s : s[i][a] # NoEntry
      PROVE  \E i \in DOMAIN s : Merged(s)[a] = s[i][a] /\ s[i][a] # NoEntry
    <2>1. LevelsWith(s, a) # {}
        BY <1>2 DEF LevelsWith
    <2>2. Innermost(s, a) \in LevelsWith(s, a)
        BY <2>1, InnermostIsLevel
    <2>3. /\ Innermost(s, a) \in DOMAIN s
          /\ s[Innermost(s, a)][a] # NoEntry
        BY <2>2 DEF LevelsWith
    <2>4. Merged(s)[a] = s[Innermost(s, a)][a]
        BY <2>1 DEF Merged
    <2>5. QED
        BY <2>3, <2>4
<1>3. QED
    BY <1>1, <1>2

\* The merged levels are a journal.
LEMMA MergedType ==
    ASSUME NEW s \in Seq(Journal)
    PROVE  Merged(s) \in Journal
<1>1. ASSUME NEW a \in Addr
      PROVE  Merged(s)[a] \in Entry
    <2>1. \A i \in DOMAIN s : s[i] \in Journal
        OBVIOUS
    <2>2. \A i \in DOMAIN s : s[i][a] \in Entry
        BY <2>1 DEF Journal
    <2>3. QED
        BY <2>2, MergedIsEntry DEF Entry
<1>2. Merged(s) = [a \in Addr |-> Merged(s)[a]]
    BY DEF Merged
<1>3. QED
    BY <1>1, <1>2 DEF Journal

\* Nothing merged is nothing.
LEMMA MergedNothing == Merged(<<>>) = EmptyJournal
<1>1. \A a \in Addr : LevelsWith(<<>>, a) = {}
    BY DEF LevelsWith
<1>2. QED
    BY <1>1 DEF Merged, EmptyJournal

\* One more level overrides what it has an entry for.
LEMMA MergedAppend ==
    ASSUME NEW s \in Seq(Journal), NEW j \in Journal
    PROVE  Merged(Append(s, j)) =
              [a \in Addr |-> IF j[a] # NoEntry THEN j[a] ELSE Merged(s)[a]]
<1> DEFINE n == Len(s)
           t == Append(s, j)
<1>1. /\ n \in Nat /\ DOMAIN s = 1..n
      /\ t \in Seq(Journal)
      /\ DOMAIN t = 1..(n + 1)
      /\ t[n + 1] = j
      /\ \A i \in 1..n : t[i] = s[i]
    OBVIOUS
<1> HIDE DEF t, n
<1>2. ASSUME NEW a \in Addr
      PROVE  Merged(t)[a] = IF j[a] # NoEntry THEN j[a] ELSE Merged(s)[a]
    <2>1. CASE j[a] # NoEntry
        <3>1. n + 1 \in LevelsWith(t, a)
            BY <1>1, <2>1 DEF LevelsWith
        <3>2. \A i \in LevelsWith(t, a) : i <= n + 1
            BY <1>1 DEF LevelsWith
        <3>3. Innermost(t, a) = n + 1
            BY <1>1, <3>1, <3>2, InnermostIs
        <3>4. QED
            BY <1>1, <2>1, <3>1, <3>3 DEF Merged
    <2>2. CASE j[a] = NoEntry
        <3>1. LevelsWith(t, a) = LevelsWith(s, a)
            BY <1>1, <2>2 DEF LevelsWith
        <3>2. CASE LevelsWith(s, a) = {}
            BY <2>2, <3>1, <3>2 DEF Merged
        <3>3. CASE LevelsWith(s, a) # {}
            <4>1. Innermost(s, a) \in LevelsWith(s, a)
                BY <3>3, InnermostIsLevel
            <4>2. Innermost(s, a) \in 1..n
                BY <1>1, <4>1 DEF LevelsWith
            <4>3. Innermost(t, a) = Innermost(s, a)
                BY <3>1 DEF Innermost
            <4>4. QED
                BY <1>1, <2>2, <3>1, <3>3, <4>2, <4>3 DEF Merged
        <3>4. QED
            BY <3>2, <3>3
    <2>3. QED
        BY <2>1, <2>2
<1>3. Merged(t) = [a \in Addr |-> Merged(t)[a]]
    BY DEF Merged
<1>4. QED
    BY <1>2, <1>3 DEF t

\* Setting an account, on an empty stack too, puts one entry in one level and
\* makes it the one that is found.
LEMMA SetAccountEntries ==
    ASSUME journalStack \in Seq(Journal), NEW a \in Addr, NEW obj \in Object,
           SetAccount(a, obj)
    PROVE  /\ \A i \in DOMAIN journalStack' : \A b \in Addr :
                 \/ journalStack'[i][b] = NoEntry
                 \/ b = a /\ journalStack'[i][b] = obj
                 \/ /\ i \in DOMAIN journalStack
                    /\ journalStack'[i][b] = journalStack[i][b]
           /\ \A b \in Addr : Merged(journalStack')[b] =
                 IF b = a THEN obj ELSE Merged(journalStack)[b]
<1> DEFINE n == Len(journalStack)
           top == journalStack[n]
           new == [top EXCEPT ![a] = obj]
           one == [EmptyJournal EXCEPT ![a] = obj]
<1>n. obj # NoEntry
    BY MarksAssumption
<1>1. CASE journalStack # <<>>
    <2>1. /\ Popped \in Seq(Journal) /\ top \in Journal
          /\ journalStack = Append(Popped, top)
          /\ \A j \in Journal :
                [journalStack EXCEPT ![n] = j] = Append(Popped, j)
        BY <1>1, StackSplits
    <2>2. new \in Journal
        BY <2>1 DEF Journal, Entry
    <2>3. journalStack' = [journalStack EXCEPT ![n] = new]
        BY <1>1 DEF SetAccount
    <2>4. \A b \in Addr : new[b] = IF b = a THEN obj ELSE top[b]
        BY <2>1 DEF Journal
    <2>5. ASSUME NEW i \in DOMAIN journalStack', NEW b \in Addr
          PROVE  /\ i \in DOMAIN journalStack
                 /\ journalStack'[i] = IF i = n THEN new ELSE journalStack[i]
        BY <2>3
    <2>6. \A i \in DOMAIN journalStack' : \A b \in Addr :
              \/ b = a /\ journalStack'[i][b] = obj
              \/ /\ i \in DOMAIN journalStack
                 /\ journalStack'[i][b] = journalStack[i][b]
        BY <2>4, <2>5
    <2> HIDE DEF top, new, n
    <2>7. journalStack' = Append(Popped, new)
        BY <2>1, <2>2, <2>3
    <2>8. \A b \in Addr :
              /\ Merged(journalStack')[b] =
                    IF new[b] # NoEntry THEN new[b] ELSE Merged(Popped)[b]
              /\ Merged(journalStack)[b] =
                    IF top[b] # NoEntry THEN top[b] ELSE Merged(Popped)[b]
        BY <2>1, <2>2, <2>7, MergedAppend
    <2>9. QED
        BY <1>n, <2>4, <2>6, <2>8
<1>2. CASE journalStack = <<>>
    <2>1. journalStack' = <<one>>
        BY <1>2 DEF SetAccount
    <2>2. one \in Journal /\ <<>> \in Seq(Journal)
        BY DEF EmptyJournal, Journal, Entry
    <2>3. \A b \in Addr : one[b] = IF b = a THEN obj ELSE NoEntry
        BY DEF EmptyJournal
    <2> HIDE DEF one
    <2>4. journalStack' = Append(<<>>, one)
        BY <2>1
    <2>m. Merged(Append(<<>>, one)) =
              [b \in Addr |-> IF one[b] # NoEntry THEN one[b]
                              ELSE Merged(<<>>)[b]]
        BY <2>2, MergedAppend
    <2>5. \A b \in Addr : Merged(journalStack')[b] =
              IF one[b] # NoEntry THEN one[b] ELSE Merged(<<>>)[b]
        BY <2>4, <2>m
    <2>6. \A b \in Addr : Merged(<<>>)[b] = NoEntry
        BY MergedNothing DEF EmptyJournal
    <2>7. QED
        BY <1>2, <1>n, <2>1, <2>3, <2>5, <2>6
<1>3. QED
    BY <1>1, <1>2

-----------------------------------------------------------------------------
(* The keys of the cache in the order of their insertion *)

Occurs(b, keys) == \E i \in DOMAIN keys : keys[i] = b

NoRepeat(keys) == \A i, j \in DOMAIN keys : keys[i] = keys[j] => i = j

\* The first key goes and the others stay as they were.
LEMMA TailKeys ==
    ASSUME NEW keys \in Seq(Addr), keys # <<>>, NoRepeat(keys)
    PROVE  /\ Tail(keys) \in Seq(Addr)
           /\ Len(Tail(keys)) = Len(keys) - 1
           /\ NoRepeat(Tail(keys))
           /\ \A b \in Addr : Occurs(b, Tail(keys)) <=>
                                Occurs(b, keys) /\ b # Head(keys)
<1> DEFINE n == Len(keys)
<1>1. n \in Nat /\ n > 0 /\ DOMAIN keys = 1..n
    OBVIOUS
<1>2. /\ Tail(keys) \in Seq(Addr)
      /\ Len(Tail(keys)) = n - 1
      /\ DOMAIN Tail(keys) = 1..(n - 1)
      /\ \A i \in 1..(n - 1) : Tail(keys)[i] = keys[i + 1]
    BY <1>1
<1>3. Head(keys) = keys[1]
    OBVIOUS
<1>4. NoRepeat(Tail(keys))
    BY <1>1, <1>2 DEF NoRepeat
<1>5. ASSUME NEW b \in Addr
      PROVE  Occurs(b, Tail(keys)) <=> Occurs(b, keys) /\ b # Head(keys)
    <2>1. ASSUME Occurs(b, Tail(keys))
          PROVE  Occurs(b, keys) /\ b # Head(keys)
        <3>1. PICK i \in 1..(n - 1) : Tail(keys)[i] = b
            BY <1>2, <2>1 DEF Occurs
        <3>2. keys[i + 1] = b /\ i + 1 \in 1..n /\ i + 1 # 1
            BY <1>1, <1>2, <3>1
        <3>3. QED
            BY <1>1, <1>3, <3>2 DEF Occurs, NoRepeat
    <2>2. ASSUME Occurs(b, keys), b # Head(keys)
          PROVE  Occurs(b, Tail(keys))
        <3>1. PICK i \in 1..n : keys[i] = b
            BY <1>1, <2>2 DEF Occurs
        <3>2. i # 1
            BY <1>3, <2>2, <3>1
        <3>3. i - 1 \in 1..(n - 1) /\ Tail(keys)[i - 1] = keys[i]
            BY <1>1, <1>2, <3>2
        <3>4. QED
            BY <1>2, <3>1, <3>3 DEF Occurs
    <2>3. QED
        BY <2>1, <2>2
<1>6. QED
    BY <1>2, <1>4, <1>5

\* A key that is new is added at the end.
LEMMA AppendKey ==
    ASSUME NEW keys \in Seq(Addr), NEW a \in Addr,
           NoRepeat(keys), ~Occurs(a, keys)
    PROVE  /\ Len(Append(keys, a)) = Len(keys) + 1
           /\ NoRepeat(Append(keys, a))
           /\ \A b \in Addr : Occurs(b, Append(keys, a)) <=>
                                Occurs(b, keys) \/ b = a
<1> DEFINE n == Len(keys)
           more == Append(keys, a)
<1>1. /\ n \in Nat
      /\ DOMAIN keys = 1..n
      /\ Len(more) = n + 1
      /\ DOMAIN more = 1..(n + 1)
      /\ \A i \in 1..n : more[i] = keys[i]
      /\ more[n + 1] = a
    OBVIOUS
<1> HIDE DEF more
<1>2. NoRepeat(more)
    BY <1>1 DEF NoRepeat, Occurs
<1>3. ASSUME NEW b \in Addr
      PROVE  Occurs(b, more) <=> Occurs(b, keys) \/ b = a
    BY <1>1 DEF Occurs
<1>4. QED
    BY <1>1, <1>2, <1>3 DEF more
=============================================================================
