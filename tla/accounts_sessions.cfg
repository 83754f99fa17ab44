SPECIFICATION Spec
CONSTANTS
    c1 = c1  c2 = c2  u1 = u1  u2 = u2  a = a  b = b  x = x  y = y  p = p
    admin = admin  editor = editor  edit = edit  manage = manage
    Nothing = Nothing
    Request = {c1, c2}
    User = {u1, u2}
    Username = {a, b}
    Email = {x, y}
    Password = {p}
    Role = {admin, editor}
    Permission = {edit, manage}
    Grants <- MCGrants
    Phoned = {u1}
    Founder = u1
    Operations = {"login", "sessions"}
    MaxSecond = 1
    MaxRequests = 3
CHECK_DEADLOCK FALSE
PROPERTY CurrentSessionKept
