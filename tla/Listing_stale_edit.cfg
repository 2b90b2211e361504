SPECIFICATION Spec
CONSTANTS
  tab1 = tab1
  tab2 = tab2
  joy = joy
  ken = ken
  modest = modest
  greedy = greedy
  soon = soon
  later = later
  Tabs <- TwoTabs
  Officers <- OneOfficer
  Terms <- TwoTerms
  Schedules <- TwoSchedules
  MaxLog = 5
CHECK_DEADLOCK FALSE
INVARIANT LogExplainsStatus
