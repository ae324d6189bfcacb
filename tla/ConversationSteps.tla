-------------------------- MODULE ConversationSteps --------------------------
(***************************************************************************)
(* The vocabulary of the bot's conversation: its steps, what is collected  *)
(* on the way, and what the POST needs.                                    *)
(***************************************************************************)

Questions == {"ASK_LANGUAGE", "ASK_LOCATION", "ASK_NAME", "ASK_DATE", "ASK_TIME",
              "ASK_CONTEXT", "ASK_DURATION"}
Steps == Questions \union {"IDLE", "CONFIRM"}

\* Latitude and longitude come together, as one location.
Fields == {"language", "location", "name", "event_date", "event_datetime",
           "context", "duration_hours"}

\* data[...] in the payload of the POST; the other fields have defaults.
Required == {"location", "name", "event_datetime"}
=============================================================================
