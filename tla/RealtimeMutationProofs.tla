----------------------- MODULE RealtimeMutationProofs -----------------------
(* What the operators of RealtimeMutations return and preserve. *)
EXTENDS RealtimeMutations, TLAPS

\* The fields of a RealtimeMutation, and which paths its operation admits.
LEMMA MutationFields ==
  ASSUME NEW m \in Mutation
  PROVE  /\ m.id \in Nat /\ m.op \in Operations /\ m.path \in Paths
         /\ m.retry \in Nat /\ m.gen \in Nat
         /\ m.op \in FileOperations => m.path \in Files
         /\ m.op \in DirOperations => m.path \in Dirs
         /\ Key(m) \in Keys
         /\ m # NoMutation
  BY NoMutationAssumption
     DEF Mutation, Operations, FileOperations, DirOperations, Paths, Key, Keys

\* A newly built mutation on a file is a mutation.
LEMMA FreshFileMutation ==
  ASSUME NEW id \in Nat, NEW op \in FileOperations, NEW f \in Files, NEW gen \in Nat
  PROVE  /\ FreshMutation(id, op, f, gen) \in Mutation
         /\ Key(FreshMutation(id, op, f, gen)) = <<op, f>>
         /\ FreshMutation(id, op, f, gen).id = id
         /\ FreshMutation(id, op, f, gen).op = op
         /\ FreshMutation(id, op, f, gen).path = f
         /\ FreshMutation(id, op, f, gen).gen = gen
  BY DEF FreshMutation, Mutation, Key

\* ... and one on a directory is.
LEMMA FreshDirMutation ==
  ASSUME NEW id \in Nat, NEW op \in DirOperations, NEW d \in Dirs, NEW gen \in Nat
  PROVE  /\ FreshMutation(id, op, d, gen) \in Mutation
         /\ Key(FreshMutation(id, op, d, gen)) = <<op, d>>
         /\ FreshMutation(id, op, d, gen).op = op
  BY DEF FreshMutation, Mutation, Key

\* A retry is a mutation of the same key.
LEMMA RetryMutationType ==
  ASSUME NEW m \in Mutation, NEW id \in Nat
  PROVE  /\ RetryOf(m, id) \in Mutation
         /\ Key(RetryOf(m, id)) = Key(m)
         /\ RetryOf(m, id).id = id
         /\ RetryOf(m, id).op = m.op
         /\ RetryOf(m, id).path = m.path
         /\ RetryOf(m, id).gen = m.gen
  BY DEF RetryOf, Mutation, Key

\* Replacing the generation of a mutation changes nothing else.
LEMMA SetGeneration ==
  ASSUME NEW m \in Mutation, NEW g \in Nat
  PROVE  /\ [m EXCEPT !.gen = g] \in Mutation
         /\ Key([m EXCEPT !.gen = g]) = Key(m)
         /\ [m EXCEPT !.gen = g].id = m.id
         /\ [m EXCEPT !.gen = g].op = m.op
         /\ [m EXCEPT !.gen = g].path = m.path
         /\ [m EXCEPT !.gen = g].gen = g
  BY DEF Mutation, Key

\* The mutation the loop processes has the key and id of the dequeued one.
LEMMA ForProcessingType ==
  ASSUME NEW latest \in [Paths -> Nat], NEW m \in Mutation
  PROVE  /\ ForProcessing(latest, m) \in Mutation
         /\ Key(ForProcessing(latest, m)) = Key(m)
         /\ ForProcessing(latest, m).op = m.op
         /\ ForProcessing(latest, m).path = m.path
         /\ ForProcessing(latest, m).id = m.id
  BY MutationFields, SetGeneration DEF ForProcessing

\* An entry of the ownership table belongs to its key.
LEMMA TableEntry ==
  ASSUME NEW table \in Table, NEW k \in Keys, table[k] # NoMutation
  PROVE  table[k] \in Mutation /\ Key(table[k]) = k
  BY DEF Table

\* Registration keeps a table a table and touches only the mutation's key.
LEMMA RegisterType ==
  ASSUME NEW table \in Table, NEW m \in Mutation
  PROVE  /\ Register(table, m) \in Table
         /\ \A k \in Keys : k # Key(m) => Register(table, m)[k] = table[k]
         /\ Register(table, m)[Key(m)] =
              IF CanRegister(table, m) THEN m ELSE table[Key(m)]
  BY MutationFields DEF Register, Table

\* Registering several mutations: each key ends up with its old entry or with
\* one of the mutations that may register for it.
LEMMA RegisterAllType ==
  ASSUME NEW table \in Table, NEW ms \in SUBSET Mutation
  PROVE  /\ RegisterAll(table, ms) \in Table
         /\ \A k \in Keys :
              \/ RegisterAll(table, ms)[k] = table[k]
              \/ \E m \in ms : /\ Key(m) = k
                               /\ CanRegister(table, m)
                               /\ RegisterAll(table, ms)[k] = m
<1> DEFINE C(k) == \E m \in ms : Key(m) = k /\ CanRegister(table, m)
           W(k) == CHOOSE m \in ms : Key(m) = k /\ CanRegister(table, m)
<1>1. ASSUME NEW k \in Keys, C(k)
      PROVE  W(k) \in ms /\ Key(W(k)) = k /\ CanRegister(table, W(k))
  BY <1>1
<1>2. ASSUME NEW k \in Keys
      PROVE  RegisterAll(table, ms)[k] = IF C(k) THEN W(k) ELSE table[k]
  BY DEF RegisterAll
<1>3. ASSUME NEW k \in Keys
      PROVE  \/ RegisterAll(table, ms)[k] = table[k]
             \/ \E m \in ms : /\ Key(m) = k
                              /\ CanRegister(table, m)
                              /\ RegisterAll(table, ms)[k] = m
  BY <1>1, <1>2
<1>4. RegisterAll(table, ms) \in [Keys -> Mutation \cup {NoMutation}]
  <2>1. ASSUME NEW k \in Keys
        PROVE  RegisterAll(table, ms)[k] \in Mutation \cup {NoMutation}
    BY <1>3 DEF Table
  <2>2. RegisterAll(table, ms) = [k \in Keys |-> RegisterAll(table, ms)[k]]
    BY DEF RegisterAll
  <2> QED BY <2>1, <2>2
<1>5. ASSUME NEW k \in Keys, RegisterAll(table, ms)[k] # NoMutation
      PROVE  Key(RegisterAll(table, ms)[k]) = k
  BY <1>3, <1>5 DEF Table
<1> QED BY <1>3, <1>4, <1>5 DEF Table

\* Releasing keeps a table a table; an entry is kept or becomes empty, and is
\* emptied only for a mutation with its id.
LEMMA ReleaseType ==
  ASSUME NEW table \in Table, NEW m \in Mutation
  PROVE  /\ Release(table, m) \in Table
         /\ \A k \in Keys : Release(table, m)[k] # NoMutation =>
              /\ Release(table, m)[k] = table[k]
              /\ Key(m) = k => table[k].id # m.id
  BY MutationFields DEF Release, Owns, Table

\* The same for the release of several mutations.
LEMMA ReleaseAllType ==
  ASSUME NEW table \in Table, NEW ms \in SUBSET Mutation
  PROVE  /\ ReleaseAll(table, ms) \in Table
         /\ \A k \in Keys : ReleaseAll(table, ms)[k] # NoMutation =>
              /\ ReleaseAll(table, ms)[k] = table[k]
              /\ \A m \in ms : Key(m) = k => table[k].id # m.id
  BY MutationFields DEF ReleaseAll, Owns, Table

\* Refreshing a pending change replaces its generation only.
LEMMA RefreshGenerationType ==
  ASSUME NEW table \in Table, NEW p \in Paths, NEW g \in Nat
  PROVE  /\ RefreshGeneration(table, p, g) \in Table
         /\ \A k \in Keys : k # <<"change", p>> => RefreshGeneration(table, p, g)[k] = table[k]
         /\ \A k \in Keys : /\ RefreshGeneration(table, p, g)[k] = NoMutation
                                 <=> table[k] = NoMutation
                            /\ table[k] # NoMutation =>
                                 RefreshGeneration(table, p, g)[k].id = table[k].id
         /\ RefreshGeneration(table, p, g)[<<"change", p>>] # NoMutation =>
              RefreshGeneration(table, p, g)[<<"change", p>>].gen
                \in {g, table[<<"change", p>>].gen}
<1> DEFINE key == <<"change", p>>
<1>0. key \in Keys
  BY DEF Keys, Operations, FileOperations
<1>1. CASE table[key] = NoMutation \/ g = NoGeneration
  BY <1>0, <1>1 DEF RefreshGeneration
<1>2. CASE table[key] # NoMutation /\ g # NoGeneration
  <2> DEFINE new == [table[key] EXCEPT !.gen = g]
  <2>1. table[key] \in Mutation /\ Key(table[key]) = key
    BY <1>0, <1>2, TableEntry
  <2>2. new \in Mutation /\ Key(new) = key /\ new.id = table[key].id /\ new.gen = g
    BY <2>1, SetGeneration
  <2>3. RefreshGeneration(table, p, g) = [table EXCEPT ![key] = new]
    BY <1>2 DEF RefreshGeneration
  <2>4. new # NoMutation
    BY <2>2, NoMutationAssumption
  <2> HIDE DEF new, key
  <2>5. RefreshGeneration(table, p, g) \in Table
    BY <1>0, <2>2, <2>3 DEF Table
  <2>6. \A k \in Keys : RefreshGeneration(table, p, g)[k] =
                          IF k = key THEN new ELSE table[k]
    BY <1>0, <2>3 DEF Table
  <2> QED BY <1>0, <1>2, <2>2, <2>4, <2>5, <2>6 DEF key
<1> QED BY <1>1, <1>2

-----------------------------------------------------------------------------
(* Tables whose every entry is carried by some mutation.                   *)

\* Every entry of the table has a mutation with its key and id in C.
Covered(table, C) ==
  \A k \in Keys : table[k] # NoMutation =>
    \E m \in C : Key(m) = k /\ m.id = table[k].id

\* More carriers cover no less.
LEMMA CoveredMore ==
  ASSUME NEW table, NEW C, NEW D, Covered(table, C), C \subseteq D
  PROVE  Covered(table, D)
  BY DEF Covered

\* A registered mutation is covered by itself; a refused one changes nothing.
LEMMA CoveredRegister ==
  ASSUME NEW table \in Table, NEW m \in Mutation, NEW C, Covered(table, C)
  PROVE  /\ Covered(Register(table, m), C \cup {m})
         /\ ~CanRegister(table, m) => Covered(Register(table, m), C)
<1>1. \A k \in Keys : \/ Register(table, m)[k] = table[k]
                      \/ Register(table, m)[k] = m /\ Key(m) = k
  BY RegisterType
<1>2. ~CanRegister(table, m) => Register(table, m) = table
  BY DEF Register
<1> QED BY <1>1, <1>2 DEF Covered

\* Mutations registered together are covered by those that could register.
LEMMA CoveredRegisterAll ==
  ASSUME NEW table \in Table, NEW ms \in SUBSET Mutation, NEW C, Covered(table, C)
  PROVE  Covered(RegisterAll(table, ms), C \cup {m \in ms : CanRegister(table, m)})
<1>1. \A k \in Keys :
        \/ RegisterAll(table, ms)[k] = table[k]
        \/ \E m \in ms : /\ Key(m) = k
                         /\ CanRegister(table, m)
                         /\ RegisterAll(table, ms)[k] = m
  BY RegisterAllType
<1> QED BY <1>1 DEF Covered

\* A released mutation is not needed as a carrier any more.
LEMMA CoveredRelease ==
  ASSUME NEW table \in Table, NEW m \in Mutation, NEW C, Covered(table, C)
  PROVE  Covered(Release(table, m), C \ {m})
<1>1. \A k \in Keys : Release(table, m)[k] # NoMutation =>
        /\ Release(table, m)[k] = table[k]
        /\ Key(m) = k => table[k].id # m.id
  BY ReleaseType
<1> QED BY <1>1 DEF Covered

\* The same for several released mutations.
LEMMA CoveredReleaseAll ==
  ASSUME NEW table \in Table, NEW ms \in SUBSET Mutation, NEW C, Covered(table, C)
  PROVE  Covered(ReleaseAll(table, ms), C \ ms)
<1>1. \A k \in Keys : ReleaseAll(table, ms)[k] # NoMutation =>
        /\ ReleaseAll(table, ms)[k] = table[k]
        /\ \A m \in ms : Key(m) = k => table[k].id # m.id
  BY ReleaseAllType
<1> QED BY <1>1 DEF Covered

\* A refreshed change keeps its carrier.
LEMMA CoveredRefresh ==
  ASSUME NEW table \in Table, NEW p \in Paths, NEW g \in Nat, NEW C, Covered(table, C)
  PROVE  Covered(RefreshGeneration(table, p, g), C)
<1>1. \A k \in Keys : RefreshGeneration(table, p, g)[k] # NoMutation =>
        /\ table[k] # NoMutation
        /\ RefreshGeneration(table, p, g)[k].id = table[k].id
  BY RefreshGenerationType
<1> QED BY <1>1 DEF Covered

\* A mutation that owns its key covers it in place of any other carrier.
LEMMA CoveredReplace ==
  ASSUME NEW table \in Table, NEW t \in Mutation, NEW m \in Mutation, NEW C,
         Covered(table, C), Key(m) = Key(t), Owns(table, m)
  PROVE  Covered(table, (C \ {t}) \cup {m})
  BY DEF Covered, Owns

\* A mutation that does not own its key covers nothing.
LEMMA CoveredWithout ==
  ASSUME NEW table \in Table, NEW t \in Mutation, NEW C, Covered(table, C),
         ~Owns(table, t)
  PROVE  Covered(table, C \ {t})
  BY DEF Covered, Owns
=============================================================================
