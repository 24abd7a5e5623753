------------------------------ MODULE MCApcTiers ------------------------------
(* Both tiers of the prefix cache in one run, and the model store that makes    *)
(* and clears such a cache with every model: they share no variable, so each    *)
(* behaviour is one of the block pool, of the disk store or of the model store. *)
EXTENDS ApcPool, ApcDisk, ModelStore, TLC

CONSTANTS a, ab, ac, d, w1, s1, s2, s12, s3, h1, h2, h3, h4, P, Q, LoRA

SharedPrompts == {<<a, ab>>, <<a, ac>>, <<d>>}

\* A prompt, a longer one, and one that shares nothing with them.
TwoPrefixes == {{a}, {a, ab}, {d}}
ShardBlocks == [s \in {s1, s2, s12, s3} |->
                  CASE s = s1 -> {a} [] s = s2 -> {ab} [] s = s12 -> {a, ab} [] OTHER -> {d}]
\* The shard of the longer prompt is larger than DiskCap.
ShardSizes == [s \in {s1, s2, s12, s3} |-> IF s = s12 THEN 3 ELSE 1]

\* Calls for the model in memory, for another one and for an adapter to the
\* first, and an unload.
Kinds == (h1 :> "whole") @@ (h2 :> "stream") @@ (h3 :> "whole") @@ (h4 :> "unload")
Names == (h1 :> <<P, Inherit>>) @@ (h2 :> <<Default, Inherit>>)
         @@ (h3 :> <<Q, LoRA>>) @@ (h4 :> <<Default, Inherit>>)
AllModels == {P, Q, Default} \X {NoAdapter, LoRA}
Preloaded == {<<P, LoRA>>, <<Q, NoAdapter>>}

\* The same pool on a device whose tensor limit is below the size of the pool: a
\* harvest passes over what it may not store and may find a later block.
Limited == INSTANCE ApcPool WITH HashLimit <- 2

\* The same pool without a disk tier, undisturbed: a harvest ends where
\* the pool is full.
Alone == INSTANCE ApcPool WITH DiskTier <- FALSE, Faults <- {}

VARIABLE tier

TierInit == /\ tier \in {"pool", "limited", "alone", "disk", "models"}
            /\ Init /\ DiskInit /\ StoreInit
            /\ tier # "models" => cache = CHOOSE m \in InitialModels : TRUE

TierNext == \/ tier = "pool" /\ Next /\ UNCHANGED <<tier, diskVars, storeVars>>
            \/ tier = "limited" /\ Limited!Next /\ UNCHANGED <<tier, diskVars, storeVars>>
            \/ tier = "alone" /\ Alone!Next /\ UNCHANGED <<tier, diskVars, storeVars>>
            \/ tier = "disk" /\ DiskNext /\ UNCHANGED <<tier, vars, storeVars>>
            \/ tier = "models" /\ StoreNext /\ UNCHANGED <<tier, vars, diskVars>>

\* DiskFairness and StoreFairness, each for the behaviours of its own tier:
\* the steps of the other tiers may stay enabled there and are never taken.
TierFairness ==
    /\ \A w \in Writers : WF_diskVars(tier = "disk" /\ Write(w))
    /\ WF_storeVars(tier = "models" /\ OnLoop)
    /\ \A g \in Generators : WF_storeVars(tier = "models" /\ Turn(g))

TierSpec == TierInit /\ [][TierNext]_<<tier, vars, diskVars, storeVars>>
            /\ TierFairness
===============================================================================
