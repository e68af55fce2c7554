SPECIFICATION ConfSpec
CONSTANTS
  Admins = {q1}
  MonitorIds = {m1, m2}
  ChannelIds = {}
  PageIds = {}
  NoRow = NoRow
  WriteLimit = 22
  WindowLimit = 1
  Uploads = {}
  Filled = {"status_logs", "agent_metric_samples"}
  Batches = {10}
  MaxHistory = 10
  MaxOrders = 1
PROPERTY CascadesAreCounted
\* Requests are answered and the histories stop at their bound.
CHECK_DEADLOCK FALSE
