------------------------------- MODULE MCChat -------------------------------
EXTENDS Chat

TwoEnvironments ==
  {{"crash in leave", "switch"}, {"crash in addMessage", "crash in leave", "switch"}}
=============================================================================
