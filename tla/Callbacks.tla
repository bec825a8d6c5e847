------------------------------ MODULE Callbacks -----------------------------
(***************************************************************************)
(* What the parser of server responses promises to IMAP::Client::Callback: *)
(* the order in which the functions that matter to the client are called.  *)
(* Module Responses is the parser.                                         *)
(***************************************************************************)
VARIABLES
    mode,    \* what has begun and not ended yet
    event    \* the function being called, or "none"

\* From which mode a function may be called, and the mode after it.
Protocol ==
    { <<"line",         "imap_tagged_status_begin",       "tagged">>,
      <<"tagged",       "imap_tagged_status_end",         "line">>,
      <<"line",         "imap_untagged_status_begin",     "line">>,
      <<"line",         "imap_untagged_status_end",       "line">>,
      <<"line",         "imap_status_code_capability_begin", "capabilities">>,
      <<"tagged",       "imap_status_code_capability_begin", "capabilities">>,
      <<"capabilities", "imap_capability",                "capabilities">>,
      <<"capabilities", "imap_status_code_capability_end", "line">>,
      <<"capabilities", "imap_status_code_capability_end", "tagged">>,
      <<"line",         "imap_status_code",               "line">>,
      <<"tagged",       "imap_status_code",               "tagged">>,
      <<"line",         "imap_data_exists",               "line">>,
      <<"line",         "imap_data_expunge",              "line">>,
      <<"line",         "imap_data_flags_begin",          "flags">>,
      <<"flags",        "imap_flag",                      "flags">>,
      <<"flags",        "imap_data_flags_end",            "line">>,
      <<"line",         "imap_flag",                      "line">>,
      <<"tagged",       "imap_flag",                      "tagged">>,
      <<"flags",        "imap_atom_flag",                 "flags">>,
      <<"line",         "imap_atom_flag",                 "line">>,
      <<"tagged",       "imap_atom_flag",                 "tagged">>,
      <<"fetch",        "imap_atom_flag",                 "fetch">>,
      <<"line",         "imap_list_begin",                "list">>,
      <<"list",         "imap_list_flag",                 "list">>,
      <<"line",         "imap_list_flag",                 "line">>,
      <<"list",         "imap_list_mailbox",              "list">>,
      <<"line",         "imap_list_mailbox",              "line">>,
      <<"list",         "imap_list_end",                  "line">>,
      <<"line",         "imap_data_fetch_begin",          "fetch">>,
      <<"fetch",        "imap_uid",                       "fetch">>,
      <<"fetch",        "imap_flag",                      "fetch">>,
      <<"fetch",        "imap_body_section_begin",        "section">>,
      <<"section",      "imap_section_empty",             "section">>,
      <<"section",      "imap_section_header",            "section">>,
      <<"section",      "imap_body_section_inner",        "inner">>,
      <<"inner",        "imap_body_section_end",          "fetch">>,
      <<"fetch",        "imap_data_fetch_end",            "line">> }

Init == mode = "line" /\ event = "none"

Step ==
    \/ <<mode, event', mode'>> \in Protocol
    \/ event' = "none" /\ mode' = mode

Spec == Init /\ [][Step]_<<mode, event>>
=============================================================================
