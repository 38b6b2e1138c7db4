------------------------ MODULE SchemaRegistryProofs ------------------------
(* Proofs about SchemaRegistry, for any fields, types and first version.     *)
EXTENDS SchemaRegistry, Naturals, TLAPS

\* The registered version is a schema, and the event at most one version behind.
SchemaTypeOK ==
    /\ schema \in Schemas
    /\ behind \in {0, 1}
    /\ tightened \in BOOLEAN

SchemaInv == SchemaTypeOK /\ NewReadsOld

\* The rule is right about the required fields and the types it compares: what
\* is valid under the old version conforms to a new one that it accepts and that
\* requires no more.
LEMMA CompatibleReads ==
    ASSUME NEW old \in Schemas, NEW new \in Schemas, NEW event,
           is_backward_compatible(old, new), new.required \subseteq old.required,
           validate(old, event)
    PROVE  Conforms(new, event)
<1>1. new.required \subseteq DOMAIN event
  BY DEF validate, Conforms
<1>2. ASSUME NEW f \in DOMAIN event \cap DOMAIN new.fields
      PROVE  event[f] \in {Null, new.fields[f]}
  <2>1. f \in DOMAIN old.fields /\ event[f] \in {Null, old.fields[f]}
    BY DEF validate, Conforms
  <2>2. old.fields[f] = new.fields[f]
    BY <2>1 DEF is_backward_compatible
  <2> QED BY <2>1, <2>2
<1> QED BY <1>1, <1>2 DEF Conforms

\* The initial state satisfies the invariant.
LEMMA SchemaInitInv == SchemaInit => SchemaInv
<1> SUFFICES ASSUME SchemaInit PROVE SchemaInv
  OBVIOUS
<1>1. schema \in Schemas /\ behind = 0 /\ tightened = FALSE
  BY FirstSchemaAssumption DEF SchemaInit
<1>2. NewReadsOld
  BY <1>1 DEF NewReadsOld
<1> QED BY <1>1, <1>2 DEF SchemaInv, SchemaTypeOK

\* Every step keeps the invariant.
LEMMA SchemaNextInv == SchemaInv /\ [SchemaNext]_schemaVars => SchemaInv'
<1> SUFFICES ASSUME SchemaInv, [SchemaNext]_schemaVars PROVE SchemaInv'
  OBVIOUS
<1> USE DEF SchemaInv, SchemaTypeOK, NewReadsOld
<1>1. CASE Emit
  BY <1>1 DEF Emit
<1>2. CASE Evolve
  <2>1. PICK new \in Schemas :
            /\ is_backward_compatible(schema, new)
            /\ schema' = new
            /\ tightened' = ~(new.required \subseteq schema.required)
    BY <1>2 DEF Evolve
  <2>2. validate(schema, payload) /\ behind' = 1 /\ payload' = payload
    BY <1>2 DEF Evolve
  <2>3. ~tightened' => Conforms(new, payload)
    BY <2>1, <2>2, CompatibleReads
  <2>4. ~tightened' => Conforms(schema', payload')
    BY <2>1, <2>2, <2>3
  <2>5. NewReadsOld'
    BY <2>4 DEF Conforms
  <2> QED BY <2>1, <2>2, <2>5
<1>3. CASE UNCHANGED schemaVars
  BY <1>3 DEF schemaVars, Conforms
<1> QED BY <1>1, <1>2, <1>3 DEF SchemaNext

\* A consumer that has been upgraded reads every event of the version before,
\* unless an optional field has become required, after any sequence of versions
\* the rule accepts.
THEOREM UpgradedConsumersRead == SchemaSpec => []NewReadsOld
<1>1. SchemaInv => NewReadsOld
  BY DEF SchemaInv
<1> QED BY <1>1, SchemaInitInv, SchemaNextInv, PTL DEF SchemaSpec
=============================================================================
