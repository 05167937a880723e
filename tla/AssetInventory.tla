--------------------------- MODULE AssetInventory ---------------------------
(***************************************************************************)
(* The asset inventory endpoints of router/asset.go: POST /assets          *)
(* (AssetHandler.UpsertAsset), GET /assets (ListAssets), POST              *)
(* /applications (UpsertApplication) and POST /applications/:id/repos      *)
(* (LinkApplicationRepo), through usecase/asset.Service to                 *)
(* postgres.AssetRepository.                                               *)
(*                                                                         *)
(* Requests are handled concurrently.  Each SQL statement is one atomic   *)
(* step on the shared tables; the repository runs no transaction, so an   *)
(* upsert and its read-back are two steps that other requests' statements *)
(* may come between.  Everything a handler does before its first           *)
(* statement (binding, domain validation, uuid.Parse) touches no shared    *)
(* state and is one step.  Any statement may fail (connection loss, a     *)
(* constraint); the handler then answers 500.                              *)
(*                                                                         *)
(* The generated queries (pstore) are not in the source tree.  The model  *)
(* assumes: UpsertAsset and UpsertApplicationProfile replace the row with  *)
(* the same id (INSERT ... ON CONFLICT (id) DO UPDATE); a profile's        *)
(* asset_id and a repo link's application_id are foreign keys; nothing    *)
(* makes asset_id unique among profiles.  Owner, timestamps, tags and     *)
(* meta are abstracted away: a row is its type, environment, criticality,  *)
(* internet_exposed flag and the number of the statement that wrote it.   *)
(***************************************************************************)
EXTENDS Naturals, Sequences, FiniteSets, TLC

CONSTANTS
  AssetIds,    \* asset ids clients send that parse as UUIDs
  ProfileIds,  \* application profile ids that parse as UUIDs
  RepoIds,     \* repository ids of repo links
  BadId,       \* an id string uuid.Parse rejects
  Fields,      \* [type, env, crit] values clients send
  None,        \* no value yet
  MaxReqs      \* bound: requests

AssetTypes == {"domain", "host", "ip", "service", "application"}
Environments == {"prod", "stg", "dev", "test"}
Criticalities == {"tier1", "tier2", "tier3"}

ASSUME BadId \notin AssetIds \cup ProfileIds

VARIABLES
  assets,      \* the assets table: asset id -> row
  profiles,    \* the application_profiles table: profile id -> row
  links,       \* the application repo links: <<profile id, repo id>>
  reqs,        \* requests in flight and their answers
  writes       \* history: upsert statements executed so far

vars == <<assets, profiles, links, reqs, writes>>

-----------------------------------------------------------------------------
(* AssetType.IsValid, Environment.IsValid and Criticality.IsValid         *)
(* (domain/asset/types.go).                                                *)
IsValid(t) == t \in AssetTypes
EnvironmentIsValid(e) == e \in Environments
CriticalityIsValid(c) == c \in Criticalities

(* Mutation: the criticality check is missing.                            *)
ValidateAssetFieldsWithoutCriticality(f) ==
  IsValid(f.type) /\ EnvironmentIsValid(f.env)

(* validateAssetFields, called by NewAsset before anything is stored; the *)
(* error it returns (type, environment, then criticality) becomes a 400.  *)
ValidateAssetFields(f) ==
  IsValid(f.type) /\ EnvironmentIsValid(f.env) /\ CriticalityIsValid(f.crit)

(* The row of the Asset that NewAsset builds and the handler completes     *)
(* with internet_exposed, written by statement w.                          *)
AssetRow(f, x, w) ==
  [type |-> f.type, env |-> f.env, crit |-> f.crit, exposed |-> x, w |-> w]

Init ==
  /\ assets = <<>> /\ profiles = <<>> /\ links = {}
  /\ reqs = <<>> /\ writes = 0

NewReq(op, id, aux, f, x, bind) ==
  [op |-> op, id |-> id, aux |-> aux, fields |-> f, exposed |-> x,
   bind |-> bind, pc |-> "start", status |-> None, w |-> None, resp |-> None]

(* A client sends a request; bind is whether ShouldBindJSON succeeds.      *)
Send(q) ==
  /\ Len(reqs) < MaxReqs
  /\ reqs' = Append(reqs, q)
  /\ UNCHANGED <<assets, profiles, links, writes>>

Goto(r, pc) == reqs' = [reqs EXCEPT ![r].pc = pc]
Answer(r, status) == reqs' = [reqs EXCEPT ![r].pc = "done", ![r].status = status]

-----------------------------------------------------------------------------
(* UpsertAsset, up to the first statement: bind (400), NewAsset with its   *)
(* field validation (400), then the repository's uuid.Parse (500).         *)
UpsertAssetHandle(r) ==
  LET q == reqs[r] IN
  /\ q.op = "asset" /\ q.pc = "start"
  /\ CASE ~q.bind                      -> Answer(r, 400)
       [] ~ValidateAssetFields(q.fields) -> Answer(r, 400)
       [] q.id = BadId                 -> Answer(r, 500)
       [] OTHER                        -> Goto(r, "write")
  /\ UNCHANGED <<assets, profiles, links, writes>>

(* q.UpsertAsset: the row with this id becomes the request's entity.      *)
UpsertAssetWrite(r) ==
  LET q == reqs[r] IN
  /\ q.op = "asset" /\ q.pc = "write"
  /\ \/ Answer(r, 500) /\ UNCHANGED <<assets, writes>>
     \/ /\ writes' = writes + 1
        /\ assets' = (q.id :> AssetRow(q.fields, q.exposed, writes + 1))
                       @@ assets
        /\ reqs' = [reqs EXCEPT ![r].pc = "read", ![r].w = writes + 1]
  /\ UNCHANGED <<profiles, links>>

(* "Read back for created/updated timestamps": q.GetAssetByID, whose row   *)
(* is what the handler answers with.                                       *)
UpsertAssetReadBack(r) ==
  LET q == reqs[r] IN
  /\ q.op = "asset" /\ q.pc = "read"
  /\ \/ Answer(r, 500)
     \/ reqs' = [reqs EXCEPT ![r].pc = "done", ![r].status = 200,
                             ![r].resp = assets[q.id].w]
  /\ UNCHANGED <<assets, profiles, links, writes>>

(* AssetRepository.ListAssets: q.ListAssets with the filter argument      *)
(* ignored; every row, with its internet_exposed flag.                     *)
ListRows == {<<a, assets[a].exposed>> : a \in DOMAIN assets}

(* ListAssets: the handler parses type, env, owner, tag and internet_only *)
(* into a filter and answers with what the repository returns.             *)
(* aux is whether internet_only=true was sent.                             *)
ListAssets(r) ==
  LET q == reqs[r] IN
  /\ q.op = "list" /\ q.pc = "start"
  /\ \/ Answer(r, 500)
     \/ reqs' = [reqs EXCEPT ![r].pc = "done", ![r].status = 200,
                    ![r].resp = ListRows]
  /\ UNCHANGED <<assets, profiles, links, writes>>

-----------------------------------------------------------------------------
(* UpsertApplication, up to the first statement: bind (400), then the     *)
(* repository parses the profile id and the asset id (500).  id is the    *)
(* profile id, aux the asset id.                                           *)
UpsertApplicationHandle(r) ==
  LET q == reqs[r] IN
  /\ q.op = "application" /\ q.pc = "start"
  /\ CASE ~q.bind                      -> Answer(r, 400)
       [] BadId \in {q.id, q.aux}      -> Answer(r, 500)
       [] OTHER                        -> Goto(r, "write")
  /\ UNCHANGED <<assets, profiles, links, writes>>

(* q.UpsertApplicationProfile; the asset_id foreign key refuses a profile *)
(* of an asset that is not in the table.                                   *)
UpsertApplicationWrite(r) ==
  LET q == reqs[r] IN
  /\ q.op = "application" /\ q.pc = "write"
  /\ \/ Answer(r, 500) /\ UNCHANGED <<profiles, writes>>
     \/ /\ q.aux \in DOMAIN assets
        /\ writes' = writes + 1
        /\ profiles' = (q.id :> [asset |-> q.aux, w |-> writes + 1]) @@ profiles
        /\ reqs' = [reqs EXCEPT ![r].pc = "read", ![r].w = writes + 1]
  /\ UNCHANGED <<assets, links>>

(* The read-back is q.GetApplicationProfileByAssetID(asset id): some       *)
(* profile of that asset, or no row (500).                                 *)
UpsertApplicationReadBack(r) ==
  LET q == reqs[r]
      ofAsset == {p \in DOMAIN profiles : profiles[p].asset = q.aux}
  IN
  /\ q.op = "application" /\ q.pc = "read"
  /\ \/ Answer(r, 500)
     \/ \E p \in ofAsset :
          reqs' = [reqs EXCEPT ![r].pc = "done", ![r].status = 200,
                               ![r].resp = p]
  /\ UNCHANGED <<assets, profiles, links, writes>>

(* AssetRepository.LinkApplicationRepo: uuid.Parse of the application id *)
(* fails for a malformed one; the insert fails on the application_id      *)
(* foreign key for an unknown application, or on any database error.      *)
(* Subdir, build file and default branch only fill nullable columns.      *)
LinkInsert(r) ==
  LET q == reqs[r] IN
  \/ /\ q.id = BadId
     /\ Answer(r, 500) /\ UNCHANGED links
  \/ /\ q.id # BadId
     /\ Answer(r, 500) /\ UNCHANGED links
  \/ /\ q.id \in DOMAIN profiles
     /\ links' = links \cup {<<q.id, q.aux>>}
     /\ Answer(r, 200)

(* AssetHandler.LinkApplicationRepo: bind (400), then the service call,   *)
(* one statement; any error it returns is a 500.                           *)
LinkApplicationRepo(r) ==
  LET q == reqs[r] IN
  /\ q.op = "link" /\ q.pc = "start"
  /\ \/ ~q.bind /\ Answer(r, 400) /\ UNCHANGED links
     \/ q.bind /\ LinkInsert(r)
  /\ UNCHANGED <<assets, profiles, writes>>

-----------------------------------------------------------------------------
Requests ==
  {NewReq("asset", a, None, t, x, b) :
     a \in AssetIds \cup {BadId}, t \in Fields, x \in BOOLEAN, b \in BOOLEAN}
  \cup {NewReq("list", None, io, None, None, TRUE) : io \in BOOLEAN}
  \cup {NewReq("application", p, a, None, None, b) :
          p \in ProfileIds \cup {BadId}, a \in AssetIds \cup {BadId},
          b \in BOOLEAN}
  \cup {NewReq("link", p, rp, None, None, b) :
          p \in ProfileIds \cup {BadId}, rp \in RepoIds, b \in BOOLEAN}

Next ==
  \/ \E q \in Requests : Send(q)
  \/ \E r \in DOMAIN reqs :
       \/ UpsertAssetHandle(r) \/ UpsertAssetWrite(r) \/ UpsertAssetReadBack(r)
       \/ ListAssets(r)
       \/ UpsertApplicationHandle(r) \/ UpsertApplicationWrite(r)
       \/ UpsertApplicationReadBack(r)
       \/ LinkApplicationRepo(r)

Spec == Init /\ [][Next]_vars

-----------------------------------------------------------------------------
(* Stored rows have a type, environment and criticality the domain accepts *)
(* and the write numbers of executed statements; answers carry an HTTP    *)
(* status.                                                                 *)
TypeOK ==
  /\ \A a \in DOMAIN assets :
       /\ a \in AssetIds /\ IsValid(assets[a].type)
       /\ EnvironmentIsValid(assets[a].env) /\ CriticalityIsValid(assets[a].crit)
       /\ assets[a].exposed \in BOOLEAN /\ assets[a].w \in 1 .. writes
  /\ \A p \in DOMAIN profiles :
       p \in ProfileIds /\ profiles[p].asset \in DOMAIN assets
  /\ links \subseteq (DOMAIN profiles) \X RepoIds
  /\ \A r \in DOMAIN reqs : reqs[r].status \in {None, 200, 400, 500}

Done(op) == {r \in DOMAIN reqs : reqs[r].op = op /\ reqs[r].status = 200}

(* The answer of POST /assets is the asset as this request stored it (the *)
(* read-back is only meant to add the database timestamps).               *)
UpsertAnswersOwnWrite ==
  \A r \in Done("asset") : reqs[r].resp = reqs[r].w

(* The domain invariant of ApplicationProfile (domain/asset/application.go):*)
(* profiles exist only for assets whose type is application.               *)
ProfilesOnlyOfApplications ==
  \A p \in DOMAIN profiles : assets[profiles[p].asset].type = "application"
=============================================================================
