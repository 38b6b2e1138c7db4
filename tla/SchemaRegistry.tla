--------------------------- MODULE SchemaRegistry ---------------------------
(***************************************************************************)
(* The in-process schema registry (events/schema_registry.py) as operators:  *)
(* the producer-side check of a payload, and the rule that decides whether a *)
(* new version of a schema is backward compatible.                           *)
(***************************************************************************)
CONSTANTS Fields, Types, Null, FirstSchema

ASSUME NullAssumption == Null \notin Types

\* fields: the type of each field; required: those that must be there.
Schemas ==
    UNION {[fields : [F -> Types], required : SUBSET F] : F \in SUBSET Fields}

\* A payload, abstracted to the type of the value of each of its fields.
Payloads == UNION {[F -> Types \cup {Null}] : F \in SUBSET Fields}

ASSUME FirstSchemaAssumption == FirstSchema \in Schemas

VARIABLES
    schema,     \* the registered version of an event type
    payload,    \* the last event in the topic; at first none, the empty payload
    behind,     \* how many versions it is behind the registered one
    tightened   \* the last change made an optional field required

schemaVars == <<schema, payload, behind, tightened>>

SchemaInit ==
    /\ schema = FirstSchema
    /\ payload = <<>>
    /\ behind = 0
    /\ tightened = FALSE

\* What both ends check of the fields they know: a null has every type.
Conforms(version, event) ==
    /\ version.required \subseteq DOMAIN event
    /\ \A f \in DOMAIN event \cap DOMAIN version.fields :
          event[f] \in {Null, version.fields[f]}

validate(version, event) ==
    Conforms(version, event) /\ DOMAIN event \subseteq DOMAIN version.fields

\* Faulty variant: the types are not compared.
IgnoresTypes(old, new) == new.required \subseteq DOMAIN old.fields

is_backward_compatible(old, new) ==
    /\ new.required \subseteq DOMAIN old.fields
    /\ \A f \in DOMAIN new.fields \cap DOMAIN old.fields : old.fields[f] = new.fields[f]

\* A producer emits an event under the registered version.
Emit ==
    /\ payload' \in {p \in Payloads : validate(schema, p)}
    /\ behind' = 0
    /\ UNCHANGED <<schema, tightened>>

\* A new version that the rule accepts is deployed, with an event of the version
\* before it in the topic.
Evolve ==
    /\ behind = 0 /\ validate(schema, payload)
    /\ \E new \in Schemas :
          /\ is_backward_compatible(schema, new)
          /\ schema' = new
          /\ tightened' = ~(new.required \subseteq schema.required)
    /\ behind' = 1
    /\ UNCHANGED payload

SchemaNext == Emit \/ Evolve

SchemaSpec == SchemaInit /\ [][SchemaNext]_schemaVars

-----------------------------------------------------------------------------
\* A consumer on the new version reads every event produced under the one before,
\* unless an optional field has become required, a change that the rule lets
\* pass although old events may lack the field (schema_registry.py:107-119).
NewReadsOld ==
    behind = 1 /\ ~tightened => Conforms(schema, payload)
=============================================================================
