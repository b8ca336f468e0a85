------------------------------- MODULE MCServer -------------------------------
(* A message, a prompt, and a firing of retry_dead_letters.                     *)
EXTENDS Server

CONSTANTS message, prompt, retry

MCEvents == {message, prompt, retry}
=============================================================================
