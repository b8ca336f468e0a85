----------------------------- MODULE SandboxPolicy -----------------------------
(* Which profile a command's container gets, and what the profile lets it do    *)
(* (zoomac/sandbox/policy.py and profiles.py).                                  *)
(*                                                                              *)
(* An intent is a record: the profile that was asked for, or none, and whether  *)
(* the command needs the network, reads the project, writes it.                 *)
CONSTANTS NoProfile,    (* no profile was asked for                             *)
          NoApproval,   (* no decision was passed                               *)
          HasProject,   (* the manager was given a project directory            *)
          HasHome       (* the manager was given a home directory               *)

Profiles == {"minimal", "standard", "project", "full"}

(* What a container may do: the network, its root, and its mounts.  The scratch *)
(* mount of all profiles, limits and extra read-only mounts are left out.       *)
GetProfile(name, mode) ==
  [name |-> name,
   network |-> name # "minimal",
   writableRoot |-> name = "full",
   project |-> IF name = "project" /\ HasProject THEN mode ELSE "none",
   home |-> IF name = "full" /\ HasHome THEN "rw" ELSE "none"]

ProfileFor(intent) ==
  CASE intent.requested # NoProfile -> intent.requested
    [] intent.requested = NoProfile /\ intent.writes -> IF intent.network THEN "full" ELSE "project"
    [] intent.requested = NoProfile /\ ~intent.writes /\ intent.reads -> "project"
    [] OTHER -> IF intent.network THEN "standard" ELSE "minimal"

ProjectMode(intent) ==
  IF intent.requested = NoProfile /\ intent.writes /\ ~intent.network THEN "rw" ELSE "ro"

(* Fault: a decision that asks for the user is taken for one that allows.       *)
ResolveAsked(intent, approval) ==
  LET name == ProfileFor(intent) IN
  [profile |-> GetProfile(name, ProjectMode(intent)),
   requiresApproval |-> name = "full" /\ approval = NoApproval,
   executionAllowed |-> approval # "deny"]

(* A decision overrides what the profile alone would ask for.                   *)
Resolve(intent, approval) ==
  LET name == ProfileFor(intent) IN
  [profile |-> GetProfile(name, ProjectMode(intent)),
   requiresApproval |-> IF approval = NoApproval THEN name = "full" ELSE approval = "ask",
   executionAllowed |-> approval # "deny"]
=============================================================================
