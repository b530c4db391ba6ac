--------------------------- MODULE MCRoleAppointment ---------------------------
EXTENDS RoleAppointment

Record(nominee) == [organizer |-> "org", nominee |-> nominee]

Only == [files |-> {"appointment"}, record |-> Record("alice")]
Mixed == [Only EXCEPT !.files = {"appointment", "other"}]
OfOrganizer == [Only EXCEPT !.record = Record("org")]
Unrelated == [files |-> {"other"}, record |-> NoRecord]

ThreeContents == {Only, Mixed, Unrelated}
FourContents == ThreeContents \cup {OfOrganizer}

Entries(n) == [i \in 1 .. n |-> [id |-> i, required |-> TRUE, complete |-> TRUE]]

SoundPlane == [
  gates |-> Entries(20), preconditions |-> Entries(18), stops |-> Entries(31),
  requiredChecks |-> Entries(9), findingIds |-> Entries(1), organizers |-> Entries(1),
  denylist |-> Entries(12), denyPrefixes |-> DenyPrefixes, denyFiles |-> DenyFiles,
  stopImplementations |-> StopImplementations, schemasApproved |-> TRUE]

Bootstrap == [
  visibility |-> "public", appBypass |-> FALSE, appPrivileged |-> FALSE,
  phase |-> "BOOTSTRAP_DISABLED", unmeasured |-> TRUE, appointment |-> "VACANT",
  appInstalled |-> FALSE, defaultWorkflows |-> FALSE]

PhaseA == [Bootstrap EXCEPT !.phase = "A", !.unmeasured = FALSE, !.appointment = "APPOINTED",
                            !.appInstalled = TRUE, !.defaultWorkflows = TRUE]

Setup(plane, baseline, phase) == [plane |-> plane, baseline |-> baseline, phase |-> phase]

\* Two that are sound, a variable that is ahead of main, a role that is
\* vacant, and a gate that was dropped from its registry.
FivePlanes == {
  Setup(SoundPlane, Bootstrap, "BOOTSTRAP_DISABLED"), Setup(SoundPlane, PhaseA, "A"),
  Setup(SoundPlane, Bootstrap, "A"),
  Setup(SoundPlane, [PhaseA EXCEPT !.appointment = "VACANT"], "A"),
  Setup([SoundPlane EXCEPT !.gates = Entries(19)], PhaseA, "A")}
=============================================================================
