------------------------------- MODULE LruCache -------------------------------
(* What the block pool of apc/manager.py promises: blocks kept alive while    *)
(* someone uses them, and a queue of the unused ones, the least recently      *)
(* released first, from which a block is taken when new content is stored.    *)
EXTENDS Integers, FiniteSets, SequencesExt

CONSTANTS Blocks, Keys, NoKey

VARIABLES users,    \* users[b]: how many uses of block b have not ended
          content,  \* content[b]: the prefix block b caches, or NoKey
          free      \* the blocks without a user, next victim first

vars == <<users, content, free>>

\* The queue s once b, which it holds at most once, is not in it.
Without(s, b) == LET at == {i \in 1 .. Len(s): s[i] = b}
                 IN  IF at = {} THEN s ELSE RemoveAt(s, CHOOSE i \in at: TRUE)

Empty == \A b \in Blocks: users[b] = 0 /\ content[b] = NoKey

IsQueueOfAll(q) == /\ Cardinality(Blocks) = Len(q)
                   /\ \A b \in Blocks: \E i \in 1 .. Len(q): q[i] = b

Init == Empty /\ IsQueueOfAll(free)

Use(b) ==
  /\ content[b] # NoKey
  /\ users' = [users EXCEPT ![b] = @ + 1]
  /\ free' = Without(free, b)
  /\ UNCHANGED content

Drop(b) ==
  /\ users[b] > 0
  /\ users' = [users EXCEPT ![b] = @ - 1]
  /\ free' = IF users[b] = 1 THEN Append(free, b) ELSE free
  /\ UNCHANGED content

\* The least recently released block takes content no other block has.
Store(k) ==
  /\ free # <<>>
  /\ \A b \in Blocks: content[b] # k
  /\ users' = [users EXCEPT ![Head(free)] = 1]
  /\ content' = [content EXCEPT ![Head(free)] = k]
  /\ free' = Tail(free)

\* The owner of every use gives all of them up at once.
Forget == Empty' /\ IsQueueOfAll(free)'

Next == \/ \E b \in Blocks: Use(b) \/ Drop(b)
        \/ \E k \in Keys: Store(k)
        \/ Forget

Spec == Init /\ [][Next]_vars
================================================================================
