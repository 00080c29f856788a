--------------------------- MODULE MCUpsertWriter ---------------------------
(* Payloads and tables for UpsertWriter. *)
EXTENDS UpsertWriter, TLC

CONSTANTS
  kA, kB,
  people, event, eventOfSame, skips,               \* immutable projections
  edit, target, fresh, drop, remove, grow,         \* mutable ones
  adopt, other, deep1, deep2, deep3, deep4,
  ignores, blank,
  withEvents, withLink, plain, named, edited, toDeeper1, toDeeper2, toDeeper3,
  adopting

\* An operation that carries nothing.
Base(kind) ==
  [op |-> kind, id |-> None, where |-> None, create |-> None, update |-> None,
   onMatch |-> "UPDATE", skip |-> FALSE, deletes |-> FALSE, permitted |-> TRUE]

Upsert(key, create) == [Base("upsert") EXCEPT !.where = key, !.create = create]

Adds(key, create) == [Upsert(key, create) EXCEPT !.onMatch = "APPEND"]

Payloads ==
     people :> Adds(kA, withEvents)
  @@ event :> Adds(kB, plain)
  @@ eventOfSame :> Adds(kB, plain)
  @@ skips :> [Adds(kA, withLink) EXCEPT !.skip = TRUE]
  @@ ignores :> [Upsert(kA, withEvents) EXCEPT !.onMatch = "IGNORE"]
  @@ edit :> [Upsert(kA, withEvents) EXCEPT !.update = edited]
  @@ fresh :> [Base("create") EXCEPT !.create = named, !.deletes = TRUE]
  @@ target :> Upsert(kB, plain)
  @@ drop :> [Base("unlink") EXCEPT !.id = 3]
  @@ remove :> [Base("delete") EXCEPT !.id = 2]
  @@ grow :> [Base("create") EXCEPT !.create = plain]
  @@ adopt :> [Upsert(kA, plain) EXCEPT !.update = adopting]
  @@ other :> [Base("update") EXCEPT !.id = 3, !.update = named]
  @@ deep1 :> Adds(kA, toDeeper1)
  @@ deep2 :> Adds(kA, toDeeper2)
  @@ deep3 :> Adds(kB, toDeeper3)
  @@ deep4 :> Adds(kB, plain)
  @@ blank :> Adds(None, plain)

Carries(key, a, b, items) == [key |-> key, a |-> a, b |-> b, items |-> items]

InputsSent ==
     withEvents :> Carries(None, None, None, <<event, eventOfSame>>)
  @@ withLink :> Carries(None, event, None, <<eventOfSame>>)
  @@ plain :> Carries(None, None, None, <<>>)
  @@ named :> Carries(kB, None, None, <<>>)
  @@ edited :> Carries(None, fresh, None, <<drop, remove, grow>>)
  @@ adopting :> Carries(None, target, None, <<other>>)
  @@ toDeeper1 :> Carries(None, None, None, <<deep2>>)
  @@ toDeeper2 :> Carries(None, None, None, <<deep3>>)
  @@ toDeeper3 :> Carries(None, None, None, <<deep4>>)

\* A row of kA, perhaps with a link, a row below it, one of another parent.
SmallTables ==
  {<<>>}
    \cup {[r \in 1..3 |->
             CASE r = 1 -> [key |-> kA, owner |-> None, a |-> link, b |-> None]
               [] r = 2 -> [key |-> kB, owner |-> under, a |-> None, b |-> None]
               [] r = 3 -> [key |-> last, owner |-> owner, a |-> None, b |-> None]] :
            link \in {None, 2, 3}, under \in {None, 1}, owner \in {None, 1, 2},
            last \in {kA, kB, None}}
=============================================================================
