------------------------------ MODULE SeedData ------------------------------
(***************************************************************************)
(* The tables of the seeder (cmd/seed/main.go), reduced to what their rows *)
(* say of one another: a user by e-mail and role, a job by its company     *)
(* (its source id is its position: "seed_001" and so on), an application   *)
(* by the positions of its user and its job, from 0, and the company its   *)
(* note speaks of ("" when it names none).  Positions are typed by hand,   *)
(* and nothing in the program looks at them.                               *)
(***************************************************************************)
EXTENDS Naturals, Sequences, FiniteSets

UserTable ==
  <<<<"admin@jobify.dev", "admin">>, <<"alex.kim@gmail.com", "developer">>,
    <<"maria.chen@outlook.com", "developer">>, <<"david.park@gmail.com", "developer">>,
    <<"sarah.jones@gmail.com", "developer">>, <<"nikita.volkov@gmail.com", "developer">>,
    <<"amir.hassan@gmail.com", "developer">>, <<"priya.sharma@gmail.com", "developer">>,
    <<"lucas.martin@gmail.com", "developer">>, <<"yuki.tanaka@gmail.com", "developer">>,
    <<"emma.wilson@gmail.com", "developer">>, <<"carlos.garcia@gmail.com", "developer">>>>

BackendJobs ==
  <<"Cloudflare", "Stripe", "HashiCorp", "PlanetScale", "Temporal Technologies",
    "Supabase", "Fly.io", "Linear", "Tailscale", "Warp">>

DataJobs ==
  <<"Mistral AI", "Spotify", "Databricks", "Notion", "Anthropic", "Hugging Face",
    "Revolut", "Figma">>

FrontendJobs == <<"Vercel", "Atlassian", "Shopify", "Notion", "Grafana Labs", "Cursor">>

PlatformJobs == <<"Google", "GitLab", "Shopify", "Railway", "Render">>

RustAndJavaJobs ==
  <<"Cloudflare", "TigerBeetle", "Warp", "Netflix", "JetBrains", "Twitter / X">>

MobileAndFullStackJobs ==
  <<"Airbnb", "Spotify", "Duolingo", "WhatsApp", "N26", "Replit", "Twilio", "Intercom">>

ContractSecurityAndQAJobs ==
  <<"Freelance / Remote", "Design Agency Berlin", "Analytics Startup",
    "GitHub", "1Password", "Booking.com", "Duolingo">>

AdditionalJobs ==
  <<"Discord", "Elastic", "Arduino", "Airbnb", "CNCF / Remote", "Solana Labs",
    "Sentry", "Vercel", "Scale AI", "Algolia">>

JobTable ==
  BackendJobs \o DataJobs \o FrontendJobs \o PlatformJobs \o RustAndJavaJobs \o
  MobileAndFullStackJobs \o ContractSecurityAndQAJobs \o AdditionalJobs

\* <<userIdx, jobIdx, company the note speaks of>>
ApplicationTable ==
  {<<1, 0, "Cloudflare">>, <<1, 2, "HashiCorp">>, <<1, 3, "PlanetScale">>, <<1, 6, "Fly.io">>,
   <<1, 8, "Tailscale">>, <<1, 54, "CNCF / Remote">>,
   <<2, 10, "Mistral AI">>, <<2, 12, "Databricks">>, <<2, 14, "Anthropic">>,
   <<2, 15, "Hugging Face">>, <<2, 57, "Sentry">>,
   <<3, 18, "Vercel">>, <<3, 19, "Atlassian">>, <<3, 21, "Notion">>, <<3, 22, "Grafana Labs">>,
   <<3, 23, "Cursor">>, <<3, 57, "">>,
   <<4, 24, "Google">>, <<4, 25, "GitLab">>, <<4, 26, "Shopify">>, <<4, 28, "Render">>,
   <<4, 58, "Scale AI">>,
   <<5, 29, "Cloudflare">>, <<5, 30, "TigerBeetle">>, <<5, 31, "Warp">>, <<5, 8, "Tailscale">>,
   <<6, 7, "Linear">>, <<6, 40, "Replit">>, <<6, 41, "Twilio">>, <<6, 42, "Intercom">>,
   <<7, 11, "Spotify">>, <<7, 12, "Databricks">>, <<7, 13, "Notion">>, <<7, 16, "Revolut">>,
   <<8, 32, "Netflix">>, <<8, 33, "JetBrains">>, <<8, 51, "Elastic">>,
   <<9, 35, "Airbnb">>, <<9, 36, "Spotify">>, <<9, 37, "Duolingo">>,
   <<10, 38, "WhatsApp">>, <<10, 39, "N26">>, <<10, 40, "Replit">>,
   <<11, 16, "Revolut">>, <<11, 14, "Anthropic">>, <<11, 55, "Sentry">>, <<11, 46, "GitHub">>}

SavedTable ==
  {<<1, 4>>, <<1, 9>>, <<1, 54>>, <<1, 55>>, <<2, 11>>, <<2, 13>>, <<2, 15>>, <<2, 16>>,
   <<3, 18>>, <<3, 20>>, <<3, 22>>, <<3, 23>>, <<4, 25>>, <<4, 27>>, <<4, 28>>, <<4, 58>>,
   <<5, 29>>, <<5, 30>>, <<5, 47>>, <<6, 41>>, <<6, 42>>, <<7, 12>>, <<7, 17>>,
   <<8, 34>>, <<8, 51>>, <<9, 36>>, <<9, 37>>, <<10, 38>>, <<10, 39>>, <<11, 15>>, <<11, 55>>}

Positions(table) == {<<a[1], a[2]>> : a \in table}

-----------------------------------------------------------------------------
\* The program declares 12 users, 60 jobs, 47 applications and 31 saved jobs.
ASSUME TablesAreComplete ==
  /\ Len(UserTable) = 12 /\ Len(JobTable) = 60
  /\ Cardinality(ApplicationTable) = 47 /\ Cardinality(SavedTable) = 31

\* No position is beyond its table, so that a run that leaves nothing out
\* passes nothing over; only developers have applications and saved jobs; no
\* pair stands twice, so that ON CONFLICT never hides a row of the first run;
\* no e-mail stands twice.
ASSUME TablesAreSound ==
  /\ \A p \in Positions(ApplicationTable) \cup SavedTable :
       /\ p[1] < Len(UserTable) /\ p[2] < Len(JobTable)
       /\ UserTable[p[1] + 1][2] = "developer"
  /\ Cardinality(Positions(ApplicationTable)) = Cardinality(ApplicationTable)
  /\ \A m, n \in DOMAIN UserTable : UserTable[m][1] = UserTable[n][1] => m = n

\* An application's note speaks of the company of its job, with two
\* exceptions: both notes on Sentry (position 56) are one off, on Vercel and
\* on Solana Labs (main.go:728 and 772).
ASSUME NotesNameTheirJob ==
  {a \in ApplicationTable : a[3] \notin {"", JobTable[a[2] + 1]}} =
    {<<2, 57, "Sentry">>, <<11, 55, "Sentry">>}

=============================================================================
