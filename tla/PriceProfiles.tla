---------------------------- MODULE PriceProfiles ----------------------------
(***************************************************************************)
(* The price profiles of the user, one of which is the default: bootstrap  *)
(* of the default when something needs one, creation, renaming, making a   *)
(* profile the default or no longer, and deletion.  Currency, providers    *)
(* and foil preference never matter to which profile is the default.       *)
(***************************************************************************)
EXTENDS Requests

CONSTANTS
    ProfileNames,
    DefaultProfileName,  \* the name a bootstrapped default gets
    MaxProfiles          \* bound: profiles ever created

ASSUME ProfilesAssumption ==
    /\ DefaultProfileName \in ProfileNames
    /\ None \notin ProfileNames
    /\ MaxProfiles \in Nat

VARIABLES
    profiles,    \* rows of price_profiles by id
    nextProfile  \* the sequence of the primary key

profileVars == <<profiles, nextProfile>>

Defaults == {id \in DOMAIN profiles : profiles[id].default}
Named(name) == {id \in DOMAIN profiles : profiles[id].name = name}

ProfilesInit == profiles = <<>> /\ nextProfile = 1

Insert(name, default, others) ==
    /\ nextProfile <= MaxProfiles
    /\ profiles' = [id \in DOMAIN others \cup {nextProfile} |->
                        IF id = nextProfile THEN [name |-> name, default |-> default] ELSE others[id]]
    /\ nextProfile' = nextProfile + 1

-----------------------------------------------------------------------------
(* POST /api/price-profiles: never the default *)
CreateProfile(name) ==
    /\ Named(name) = {}
    /\ Insert(name, FALSE, profiles)
    /\ UNCHANGED request

(* DELETE /api/price-profiles/{id}: the default or not, the last or not *)
DeleteProfile(id) ==
    /\ profiles' = [p \in DOMAIN profiles \ {id} |-> profiles[p]]
    /\ UNCHANGED <<nextProfile, request>>

(* get_or_create_default_price_profile, by the profile API, the dashboard  *)
(* and the price of a popular deck: without a default, one is made.  With  *)
(* one, it is returned, and nothing changes.                               *)
GetDefaultProfile(r) ==
    /\ Defaults = {}
    /\ Begin(r, [op |-> "profile", phase |-> "clear", id |-> None, name |-> DefaultProfileName,
                 default |-> TRUE, cleared |-> {}])
    /\ UNCHANGED profileVars

(* PUT /api/price-profiles/{id}: of the fields given, those that differ    *)
(* from what was read are written; a field not given is one that does not  *)
(* differ.  Only a profile that becomes the default looks at other rows.   *)
UpdateProfile(r, id, name, default) ==
    LET renamed == IF name = profiles[id].name THEN None ELSE name
        changed == IF default = profiles[id].default THEN None ELSE default
    IN /\ name # profiles[id].name \/ default # profiles[id].default
       /\ Begin(r, [op |-> "profile", phase |-> IF default /\ changed # None THEN "clear" ELSE "write",
                    id |-> id, name |-> renamed, default |-> changed, cleared |-> {}])
       /\ UNCHANGED profileVars

\* broken variant: the others keep what they are
KeepExistingDefault(r) ==
    /\ Runs(r, "profile", "clear")
    /\ Proceed(r, [request[r] EXCEPT !.phase = "write"])
    /\ UNCHANGED profileVars

(* _clear_existing_default: the other defaults there are at this moment.   *)
(* A profile that was read before keeps what was read of it.               *)
ClearExistingDefault(r) ==
    /\ Runs(r, "profile", "clear")
    /\ Proceed(r, [request[r] EXCEPT !.phase = "write", !.cleared = Defaults \ {request[r].id}])
    /\ UNCHANGED profileVars

Written(r) == request[r].cleared \cup ({request[r].id} \ {None})

\* broken variant: no unique key on the name
AcceptsGone(r) == Written(r) \subseteq DOMAIN profiles

\* The rows to update are there and the name is nobody else's
Accepts(r) ==
    /\ Written(r) \subseteq DOMAIN profiles
    /\ request[r].name # None => Named(request[r].name) \subseteq {request[r].id}

WriteProfile(r) ==
    LET mine == request[r]
        cleared == [id \in DOMAIN profiles |->
                        IF id \in mine.cleared THEN [profiles[id] EXCEPT !.default = FALSE] ELSE profiles[id]]
        update(p) == [name |-> IF mine.name = None THEN p.name ELSE mine.name,
                      default |-> IF mine.default = None THEN p.default ELSE mine.default]
    IN /\ Runs(r, "profile", "write")
       /\ Accepts(r)
       /\ IF mine.id = None THEN Insert(mine.name, mine.default, cleared)
          ELSE /\ profiles' = [cleared EXCEPT ![mine.id] = update(@)]
               /\ UNCHANGED nextProfile
       /\ End(r)

RejectProfile(r) ==
    /\ Runs(r, "profile", "write")
    /\ ~Accepts(r)
    /\ End(r)
    /\ UNCHANGED profileVars

ProfileRequest(r) ==
    \/ GetDefaultProfile(r)
    \/ \E id \in DOMAIN profiles, name \in ProfileNames, default \in BOOLEAN :
            UpdateProfile(r, id, name, default)
    \/ ClearExistingDefault(r)
    \/ WriteProfile(r)
    \/ RejectProfile(r)

ProfilesNext ==
    \/ \E name \in ProfileNames : CreateProfile(name)
    \/ \E id \in DOMAIN profiles : DeleteProfile(id)
    \/ \E r \in Requests : ProfileRequest(r)

=============================================================================
