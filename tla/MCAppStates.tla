------------------------------ MODULE MCAppStates ------------------------------
EXTENDS AppStates

\* One button at a time, and the pairs that the handlers treat differently.
MCPads ==
  {{}} \cup {{b} : b \in Buttons}
    \cup {{"up", "zlzr"}, {"b", "zlzr"}, {"right", "a"}, {"up", "a"}, {"left", "a"}, {"a", "b"}}

\* The buttons that matter to the hint and to the slots.
MCFewPads == {{}, {"up"}, {"down"}, {"left"}, {"a"}, {"b"}, {"zlzr"}}

================================================================================
