SPECIFICATION Spec
CONSTANTS
  ana = ana
  ben = ben
  joy = joy
  ken = ken
  Users <- Everybody
  Staff <- Officers
  Seller = ana
  Bidders <- Buyers
  Winner <- Buyers
  Topics = {"DISPUTE_RESOLVED"}
  MaxAnnounced = 1
  People <- Applicants
  MaxDecisions = 2
SYMMETRY Symmetric
CHECK_DEADLOCK FALSE
INVARIANTS
  TypeOK
  NobodyToldAlone
  ToldIsAudited
PROPERTIES
  DecisionsStick
  RefinesBulletin
