------------------------ MODULE PageAccessProperties -------------------------
(***************************************************************************)
(* What PageAccess guarantees, and what the documents say of it.           *)
(***************************************************************************)
EXTENDS PageAccess

\* Three reads of changing rows amount to one: a page is served only to a token that
\* was valid as a whole - rights, version, session and account - at one moment
\* between the arrival of the request and its answer (get_current_principal), in every
\* behaviour in which no increment of authorization_version was lost so far.
AuthorizedAtOneMoment == page.at = "served" => page.current \/ lost

\* docs/architecture/data-model.md:96 says that authorization_version changes whenever
\* role/status authorization changes.
VersionChangesWithRights ==
    [][\/ person'.role # person.role
       \/ person'.active # person.active
       => person'.version # person.version]_accessVars
==============================================================================
