\* Two users join and leave while the offer is edited, on either store.
SPECIFICATION Spec
CONSTANTS
  c1 = c1  c2 = c2  u1 = u1  u2 = u2
  Users = {u1, u2}
  Calls = {c1, c2}
  UserOf <- OneEach
  Editors = {e1}
  Backends = {"asyncpg", "supabase"}
  MaxUnits = 2
  MaxParticipants = 2
  HandlersDie = TRUE
INVARIANTS TypeOK CountIsSum
PROPERTY JoinsOpenOffer
