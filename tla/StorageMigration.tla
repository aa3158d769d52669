-------------------------- MODULE StorageMigration --------------------------
(***************************************************************************)
(* Storage.__init__ (storage.py): every process opens the database by      *)
(* bringing its schema up to date, one durable statement after another,    *)
(* and may die between any two of them; the next process starts again.     *)
(*                                                                         *)
(* What a schema is reduced to: user_version, what order_intents takes for *)
(* a duplicate, and whether the tables and columns added since are there.  *)
(***************************************************************************)
EXTENDS Naturals

VARIABLES schema,  \* the database file
          opening  \* the statement Storage.__init__ is at

storageVars == <<schema, opening>>

\* user_version 0 is a new file.  Versions 1 and 2 tell the intents of a cycle apart by product
\* alone; funding_total came with version 4, trading_cycles.strategy with no version of its own.
NewFile == [version |-> 0, unique |-> "none", funding |-> FALSE, strategy |-> FALSE,
            audit |-> FALSE]
Legacy(version, unique, funding) ==
  [version |-> version, unique |-> unique, funding |-> funding, strategy |-> FALSE,
   audit |-> TRUE]
OldFiles == {Legacy(1, "product", FALSE), Legacy(2, "product", FALSE),
             Legacy(3, "portfolio", FALSE), Legacy(4, "portfolio", TRUE)}

StorageInit ==
  /\ schema \in OldFiles \union {NewFile}
  /\ opening = "closed"

Supported == 0..4
Stored(field, value) == schema' = [schema EXCEPT ![field] = value]

Complete == schema.unique = "portfolio" /\ schema.funding /\ schema.strategy /\ schema.audit

\* Connecting; DATABASE_VERSION_UNSUPPORTED keeps an older release off a newer file.  In a file
\* that lacks nothing the statements that follow change nothing, and are passed over here.
OpenDatabase ==
  /\ opening = "closed" /\ schema.version \in Supported
  /\ opening' = IF schema.version = 4 /\ Complete THEN "open" ELSE "create"
  /\ UNCHANGED schema

\* CREATE TABLE IF NOT EXISTS: a table that is there keeps its old constraint and columns.
CreateTables ==
  /\ opening = "create"
  /\ Stored("unique", IF schema.unique = "none" THEN "portfolio" ELSE schema.unique)
  /\ opening' = "rebuild"

\* One transaction copies order_intents into a table with the new constraint.
RebuildIntents ==
  /\ opening = "rebuild"
  /\ IF schema.version \in {1, 2} THEN Stored("unique", "portfolio") ELSE UNCHANGED schema
  /\ opening' = "funding"

AddFundingTotal ==
  /\ opening = "funding"
  /\ Stored("funding", TRUE)
  /\ opening' = "stamp"

StampVersion ==
  /\ opening = "stamp"
  /\ Stored("version", 4)
  /\ opening' = "strategy"

\* Mutant: only files of earlier versions get the column.
AddStrategyByVersion ==
  /\ opening = "strategy"
  /\ Stored("strategy", schema.strategy \/ schema.version < 4)
  /\ opening' = "audit"

\* Looked up by name: a file of version 4 may still lack it.
AddStrategy ==
  /\ opening = "strategy"
  /\ Stored("strategy", TRUE)
  /\ opening' = "audit"

CreateAuditTables ==
  /\ opening = "audit"
  /\ Stored("audit", TRUE)
  /\ opening' = "open"

Migrate == CreateTables \/ RebuildIntents \/ AddFundingTotal \/ StampVersion \/ AddStrategy
           \/ CreateAuditTables

CloseDatabase == opening' = "closed" /\ UNCHANGED schema

-----------------------------------------------------------------------------
StorageTypeOK ==
  /\ schema \in [version : Supported, unique : {"none", "product", "portfolio"},
                 funding : BOOLEAN, strategy : BOOLEAN, audit : BOOLEAN]
  /\ opening \in {"closed", "create", "rebuild", "funding", "stamp", "strategy", "audit", "open"}

\* Once Storage is constructed the program finds the tables, columns and constraint it uses,
\* whatever file it was given and wherever its predecessors died.
SchemaComplete == opening = "open" => Complete
=============================================================================
